---- MODULE Spec2Model ----
(***************************************************************************)
(* Open Protocol device simulator: batch manager, tightening tracker,      *)
(* auto-tightening scheduler, and the per-connection TCP task with its     *)
(* broadcast receiver and failure injection.                               *)
(***************************************************************************)
EXTENDS Integers, Sequences, FiniteSets, TLC

VARIABLES
    bm,         \* a stand-alone BatchManager (batch_manager.rs)
    bmOp,       \* the last BatchManager operation and what it returned
    tracker,    \* a stand-alone TighteningTracker (tightening_tracker.rs)
    trOp,       \* the last TighteningTracker operation and what it returned
    state,      \* the shared DeviceState behind the reader-writer lock
    auto_active,    \* ServerState.auto_tightening_active
    loops,      \* the spawned scheduler tasks: position and locals of each
    starters,   \* POST /auto-tightening/start handlers: position, last response
    stopper,    \* POST /auto-tightening/stop handler: position and locals
    sim,        \* POST /simulate/tightening handler: position and locals
    events,     \* everything sent on the broadcast channel, in send order
    conns,      \* the connection tasks: position, session and receiver of each
    inbox,      \* per connection, the frames the client sent that are not yet read
    peer,       \* per connection, whether the client still holds its side open
    lastSend,   \* per connection, the last call of send_with_failure_injection
    repository, \* the PSET repository behind SharedPsetRepository
    call,       \* the last call of a library operation and what it returned
    http,       \* the other HTTP handler tasks: position and locals of each
    locks       \* the two reader-writer locks and the tasks that take them step by step

batchVars == <<bm, bmOp>>
trackerVars == <<tracker, trOp>>
schedVars == <<auto_active, loops, starters, stopper, sim>>
connVars == <<conns, inbox, peer, lastSend>>
callVars == <<repository, call, http, locks>>
vars == <<bm, bmOp, tracker, trOp, state, auto_active, loops, starters, stopper,
          sim, events, conns, inbox, peer, lastSend, repository, call,
          http, locks>>

\* ------------------------------------------------------------------ bounds
MaxTarget == 4
MaxCounter == 5
MaxSeq == 5
NumStarters == 2
MaxStops == 1
MaxSchedEvents == 4
MaxCycles == 1
MaxBatch == 1
MaxEvents == 2
MaxFrames == 2
MaxSims == 3
MaxSpindleCount == 17
MaxSyncId == 2
MaxResultId == 20
MaxCreated == 2
MaxSelects == 2
MaxBody == 2
MaxRequests == 3

\* ------------------------------------------------------- program constants
ChannelCapacity == 100

\* ---------------------------------------------------------- batch_manager
BM_new(target_size) ==
    [counter |-> 0, target_size |-> target_size,
     completed |-> FALSE, has_nok |-> FALSE]

BM_add_tightening_nok_reopens(b, result_ok) ==
    LET counted == IF result_ok
                   THEN [b EXCEPT !.counter = b.counter + 1]
                   ELSE [b EXCEPT !.has_nok = TRUE, !.completed = FALSE]
        done    == result_ok /\ counted.counter >= counted.target_size
        after   == IF done THEN [counted EXCEPT !.completed = TRUE] ELSE counted
        status  == IF done
                   THEN (IF counted.has_nok THEN "CompletedNok" ELSE "CompletedOk")
                   ELSE "NotFinished"
    IN [bm |-> after,
        info |-> [counter |-> after.counter, tightening_id |-> 0,
                  batch_status |-> status]]

BM_add_tightening(b, result_ok) ==
    LET counted == IF result_ok
                   THEN [b EXCEPT !.counter = b.counter + 1]
                   ELSE [b EXCEPT !.has_nok = TRUE]
        done    == counted.counter >= counted.target_size
        after   == IF done THEN [counted EXCEPT !.completed = TRUE] ELSE counted
        status  == IF done
                   THEN (IF counted.has_nok THEN "CompletedNok" ELSE "CompletedOk")
                   ELSE "NotFinished"
    IN [bm |-> after,
        info |-> [counter |-> after.counter, tightening_id |-> 0,
                  batch_status |-> status]]

BM_reset(b) ==
    [b EXCEPT !.counter = 0, !.completed = FALSE, !.has_nok = FALSE]

BM_set_target_size(b, new_size) ==
    BM_reset([b EXCEPT !.target_size = new_size])

BM_increment(b) ==
    LET counted == [b EXCEPT !.counter = b.counter + 1]
        after   == IF counted.counter >= counted.target_size
                   THEN [counted EXCEPT !.completed = TRUE] ELSE counted
    IN [bm |-> after, ret |-> after.counter]

BM_get_batch_status_value_nok_first(b) ==
    IF b.has_nok THEN 0 ELSE IF b.completed THEN 1 ELSE 2

BM_get_batch_status_value(b) ==
    IF ~b.completed THEN 2 ELSE IF b.has_nok THEN 0 ELSE 1

\* Operations on the stand-alone manager.
BmNew(size) ==
    /\ bm' = BM_new(size)
    /\ bmOp' = [op |-> "new", arg |-> size]
    /\ UNCHANGED <<callVars, trackerVars, state, schedVars, events, connVars>>

BmAddTightening(ok) ==
    /\ bm.counter < MaxCounter
    /\ LET r == BM_add_tightening(bm, ok)
       IN /\ bm' = r.bm
          /\ bmOp' = [op |-> "add_tightening", arg |-> ok, info |-> r.info]
    /\ UNCHANGED <<callVars, trackerVars, state, schedVars, events, connVars>>

BmIncrement ==
    /\ bm.counter < MaxCounter
    /\ LET r == BM_increment(bm)
       IN /\ bm' = r.bm
          /\ bmOp' = [op |-> "increment", ret |-> r.ret]
    /\ UNCHANGED <<callVars, trackerVars, state, schedVars, events, connVars>>

BmReset ==
    /\ bm' = BM_reset(bm)
    /\ bmOp' = [op |-> "reset"]
    /\ UNCHANGED <<callVars, trackerVars, state, schedVars, events, connVars>>

BmSetTargetSize(n) ==
    /\ bm' = BM_set_target_size(bm, n)
    /\ bmOp' = [op |-> "set_target_size", arg |-> n]
    /\ UNCHANGED <<callVars, trackerVars, state, schedVars, events, connVars>>

\* ------------------------------------------------------ tightening_tracker
NoBatch == BM_new(0)

TR_new == [mode |-> "Single", batch |-> NoBatch, tightening_sequence |-> 0]

\* a tracker that only changes the target of the manager it has
TR_enable_batch_keeping_counts(t, size) ==
    [t EXCEPT !.mode = "Batch", !.batch.target_size = size]

TR_enable_batch(t, size) ==
    [t EXCEPT !.mode = "Batch", !.batch = BM_new(size)]

\* a tracker that numbers only the OK results
TR_add_tightening_ok_only(t, ok) ==
    LET seq == IF ok THEN t.tightening_sequence + 1 ELSE t.tightening_sequence
    IN IF t.mode = "Single"
       THEN [tracker |-> [t EXCEPT !.tightening_sequence = seq],
             info |-> [counter |-> 0, tightening_id |-> seq,
                       batch_status |-> "NotUsed"]]
       ELSE LET r == BM_add_tightening(t.batch, ok)
            IN [tracker |-> [t EXCEPT !.tightening_sequence = seq,
                                      !.batch = r.bm],
                info |-> [r.info EXCEPT !.tightening_id = seq]]

TR_add_tightening(t, ok) ==
    LET seq == t.tightening_sequence + 1
    IN IF t.mode = "Single"
       THEN [tracker |-> [t EXCEPT !.tightening_sequence = seq],
             info |-> [counter |-> 0, tightening_id |-> seq,
                       batch_status |-> "NotUsed"]]
       ELSE LET r == BM_add_tightening(t.batch, ok)
            IN [tracker |-> [t EXCEPT !.tightening_sequence = seq,
                                      !.batch = r.bm],
                info |-> [r.info EXCEPT !.tightening_id = seq]]

TR_batch_size(t) == IF t.mode = "Single" THEN 0 ELSE t.batch.target_size

TR_counter(t) == IF t.mode = "Single" THEN 0 ELSE t.batch.counter

TR_should_wait_for_config(t) ==
    IF t.mode = "Single" THEN FALSE ELSE t.batch.completed

\* Option<u32>: <<>> is None, <<n>> is Some(n)
TR_remaining_work(t) ==
    IF t.mode = "Single" THEN <<>>
    ELSE <<IF t.batch.target_size >= t.batch.counter
           THEN t.batch.target_size - t.batch.counter ELSE 0>>

TR_is_complete(t) == IF t.mode = "Single" THEN FALSE ELSE t.batch.completed

\* a tracker that counts the skipped position in either mode
TR_increment_batch_any_mode(t) ==
    LET r == BM_increment(t.batch)
    IN [tracker |-> [t EXCEPT !.batch = r.bm], ret |-> r.ret]

TR_increment_batch(t) ==
    IF t.mode = "Single" THEN [tracker |-> t, ret |-> 0]
    ELSE LET r == BM_increment(t.batch)
         IN [tracker |-> [t EXCEPT !.batch = r.bm], ret |-> r.ret]

TR_reset_batch(t) ==
    IF t.mode = "Single" THEN [tracker |-> t, ret |-> FALSE]
    ELSE [tracker |-> [t EXCEPT !.batch = BM_reset(t.batch)], ret |-> TRUE]

\* Operations on the tracker.
TrAddTightening(ok) ==
    /\ tracker.tightening_sequence < MaxSeq
    /\ LET r == TR_add_tightening(tracker, ok)
       IN /\ tracker' = r.tracker
          /\ trOp' = [op |-> "add_tightening", arg |-> ok, info |-> r.info]
    /\ UNCHANGED <<callVars, batchVars, state, schedVars, events, connVars>>

TrEnableBatch(size) ==
    /\ tracker' = TR_enable_batch(tracker, size)
    /\ trOp' = [op |-> "enable_batch", arg |-> size]
    /\ UNCHANGED <<callVars, batchVars, state, schedVars, events, connVars>>

TrIncrementBatch ==
    /\ tracker.batch.counter < MaxCounter
    /\ LET r == TR_increment_batch(tracker)
       IN /\ tracker' = r.tracker
          /\ trOp' = [op |-> "increment_batch", ret |-> r.ret]
    /\ UNCHANGED <<callVars, batchVars, state, schedVars, events, connVars>>

TrResetBatch ==
    /\ LET r == TR_reset_batch(tracker)
       IN /\ tracker' = r.tracker
          /\ trOp' = [op |-> "reset_batch", ret |-> r.ret]
    /\ UNCHANGED <<callVars, batchVars, state, schedVars, events, connVars>>

\* ------------------------------------------------------------------ state
FailureConfig_default ==
    [enabled |-> FALSE, packet_loss_rate |-> 0, delay_min_ms |-> 0,
     delay_max_ms |-> 0, corruption_rate |-> 0, force_disconnect_rate |-> 0]

MultiSpindleConfig_default ==
    [enabled |-> FALSE, spindle_count |-> 1, sync_id |-> 0]

MultiSpindleConfig_new(spindle_count, sync_id) ==
    [enabled |-> TRUE, spindle_count |-> spindle_count, sync_id |-> sync_id]

MultiSpindleConfig_is_valid(c) ==
    IF ~c.enabled THEN TRUE ELSE c.spindle_count >= 2 /\ c.spindle_count <= 16

\* Option values: <<>> is None, <<v>> is Some(v)
DeviceState_new ==
    [current_pset_id |-> <<1>>,
     tightening_tracker |-> TR_new,
     device_fsm_state |-> "Idle",
     tool_enabled |-> TRUE,
     vehicle_id |-> <<>>,
     multi_spindle_config |-> MultiSpindleConfig_default,
     failure_config |-> FailureConfig_default]

DeviceState_set_pset(s, pset_id) == [s EXCEPT !.current_pset_id = <<pset_id>>]

DeviceState_set_batch_size(s, size) ==
    [s EXCEPT !.tightening_tracker = TR_enable_batch(@, size)]

DeviceState_set_vehicle_id(s, vin) == [s EXCEPT !.vehicle_id = <<vin>>]

\* a device that stores the configuration before it validates it
DeviceState_enable_multi_spindle_store_first(s, spindle_count, sync_id) ==
    LET config == MultiSpindleConfig_new(spindle_count, sync_id)
    IN [state |-> [s EXCEPT !.multi_spindle_config = config],
        ok |-> MultiSpindleConfig_is_valid(config)]

DeviceState_enable_multi_spindle(s, spindle_count, sync_id) ==
    LET config == MultiSpindleConfig_new(spindle_count, sync_id)
    IN IF ~MultiSpindleConfig_is_valid(config)
       THEN [state |-> s, ok |-> FALSE]
       ELSE [state |-> [s EXCEPT !.multi_spindle_config = config], ok |-> TRUE]

DeviceState_disable_multi_spindle(s) ==
    [s EXCEPT !.multi_spindle_config = MultiSpindleConfig_default]

\* ---------------------------------------------------------- multi_spindle
SpindleResult_ok(spindle_id, torque, angle) ==
    [spindle_id |-> spindle_id, channel_id |-> spindle_id, torque |-> torque,
     angle |-> angle, torque_status |-> 0, angle_status |-> 0]

SpindleResult_nok(spindle_id, torque, angle, torque_failed, angle_failed) ==
    [spindle_id |-> spindle_id, channel_id |-> spindle_id, torque |-> torque,
     angle |-> angle,
     torque_status |-> IF torque_failed THEN 1 ELSE 0,
     angle_status |-> IF angle_failed THEN 1 ELSE 0]

SpindleResult_is_ok(r) == r.torque_status = 0 /\ r.angle_status = 0

\* the timestamp is left out
MultiSpindleResult_new(result_id, sync_id, spindle_results) ==
    [result_id |-> result_id, sync_id |-> sync_id,
     overall_status |->
        IF \A i \in 1..Len(spindle_results) :
              SpindleResult_is_ok(spindle_results[i])
        THEN 0 ELSE 1,
     spindle_count |-> Len(spindle_results),
     spindle_results |-> spindle_results]

\* results in which the first spindle is the one that fails
generate_multi_spindle_results_first_fails(config, result_id, pset_id) ==
    LET spindle(spindle_id) ==
           LET variation == (spindle_id - 1) * 5
               torque == 5000 + (variation * 10)
               angle == 1800 + (variation * 2)
               is_ok == spindle_id # 1 \/ result_id % 10 # 0
           IN IF is_ok THEN SpindleResult_ok(spindle_id, torque, angle)
              ELSE SpindleResult_nok(spindle_id, torque - 500, angle, TRUE, FALSE)
    IN MultiSpindleResult_new(result_id, config.sync_id,
          [spindle_id \in 1..config.spindle_count |-> spindle(spindle_id)])

generate_multi_spindle_results(config, result_id, pset_id) ==
    LET spindle(spindle_id) ==
           LET variation == (spindle_id - 1) * 5
               torque == 5000 + (variation * 10)
               angle == 1800 + (variation * 2)
               is_ok == spindle_id # config.spindle_count \/ result_id % 10 # 0
           IN IF is_ok THEN SpindleResult_ok(spindle_id, torque, angle)
              ELSE SpindleResult_nok(spindle_id, torque - 500, angle, TRUE, FALSE)
    IN MultiSpindleResult_new(result_id, config.sync_id,
          [spindle_id \in 1..config.spindle_count |-> spindle(spindle_id)])

\* Operations on the device's multi-spindle configuration.
EnableMultiSpindle(spindle_count, sync_id) ==
    /\ LET r == DeviceState_enable_multi_spindle(state, spindle_count, sync_id)
       IN /\ state' = r.state
          /\ call' = [op |-> "enable_multi_spindle",
                      spindle_count |-> spindle_count, sync_id |-> sync_id,
                      ok |-> r.ok]
    /\ UNCHANGED <<locks, batchVars, trackerVars, schedVars, events, connVars,
                   repository, http>>

DisableMultiSpindle ==
    /\ state' = DeviceState_disable_multi_spindle(state)
    /\ call' = [op |-> "disable_multi_spindle"]
    /\ UNCHANGED <<locks, batchVars, trackerVars, schedVars, events, connVars,
                   repository, http>>

GenerateMultiSpindleResults(result_id) ==
    /\ call' = [op |-> "generate_multi_spindle_results",
                config |-> state.multi_spindle_config, result_id |-> result_id,
                ret |-> generate_multi_spindle_results(
                           state.multi_spindle_config, result_id,
                           state.current_pset_id[1])]
    /\ UNCHANGED <<locks, batchVars, trackerVars, state, schedVars, events, connVars,
                   repository, http>>

\* ------------------------------------------------------------------- pset
\* A Pset is its id and name; the ranges and the description are left out.
\* is_default is the column of the sqlite table; the in-memory Vec does not
\* store it and the model keeps it there only to tell which entries new()
\* put in.
Pset_new(id, name, is_default) ==
    [id |-> id, name |-> name, is_default |-> is_default]

InMemoryPsetRepository_default_psets ==
    <<Pset_new(1, "Light Duty", TRUE), Pset_new(2, "Standard", TRUE),
      Pset_new(3, "Heavy Duty", TRUE), Pset_new(4, "Precision", TRUE),
      Pset_new(5, "Extra Heavy", TRUE)>>

MaxOf(S) == IF S = {} THEN 0 ELSE CHOOSE m \in S : \A x \in S : x <= m

PsetIds(psets) == {psets[i].id : i \in 1..Len(psets)}

\* seq is used by the sqlite table only
InMemoryPsetRepository_new ==
    [kind |-> "memory", psets |-> InMemoryPsetRepository_default_psets,
     seq |-> 0]

InMemoryPsetRepository_create(r, name) ==
    LET pset == Pset_new(MaxOf(PsetIds(r.psets)) + 1, name, FALSE)
    IN [repository |-> [r EXCEPT !.psets = Append(@, pset)],
        ok |-> TRUE, id |-> pset.id]

InMemoryPsetRepository_delete(r, id) ==
    LET kept == SelectSeq(r.psets, LAMBDA p : p.id # id)
    IN [repository |-> [r EXCEPT !.psets = kept],
        ok |-> Len(kept) < Len(r.psets)]

\* the table after init_schema and seed_if_empty on an empty database; seq is
\* the AUTOINCREMENT sequence, rows are kept in id order
SqlitePsetRepository_new ==
    [kind |-> "sqlite", psets |-> InMemoryPsetRepository_default_psets,
     seq |-> Len(InMemoryPsetRepository_default_psets)]

\* the inserted ranges are taken to be valid; the name must be unique
SqlitePsetRepository_create(r, name) ==
    IF \E i \in 1..Len(r.psets) : r.psets[i].name = name
    THEN [repository |-> r, ok |-> FALSE, id |-> 0]
    ELSE LET id == MaxOf(PsetIds(r.psets) \cup {r.seq}) + 1
         IN [repository |-> [r EXCEPT !.psets = Append(@, Pset_new(id, name, FALSE)),
                                      !.seq = id],
             ok |-> TRUE, id |-> id]

SqlitePsetRepository_delete(r, id) ==
    LET is_default == \E i \in 1..Len(r.psets) :
                         r.psets[i].id = id /\ r.psets[i].is_default
        kept == SelectSeq(r.psets, LAMBDA p : p.id # id)
    IN IF is_default THEN [repository |-> r, ok |-> FALSE]
       ELSE IF Len(kept) = Len(r.psets) THEN [repository |-> r, ok |-> FALSE]
       ELSE [repository |-> [r EXCEPT !.psets = kept], ok |-> TRUE]

\* dyn PsetRepository: the call goes to the implementation in the box
PsetRepository_create(r, name) ==
    IF r.kind = "memory" THEN InMemoryPsetRepository_create(r, name)
    ELSE SqlitePsetRepository_create(r, name)

PsetRepository_delete(r, id) ==
    IF r.kind = "memory" THEN InMemoryPsetRepository_delete(r, id)
    ELSE SqlitePsetRepository_delete(r, id)

\* Operations on the repository.
RepoCreate(name) ==
    /\ MaxOf(PsetIds(repository.psets) \cup {repository.seq})
          < Len(InMemoryPsetRepository_default_psets) + MaxCreated
    /\ LET r == PsetRepository_create(repository, name)
       IN /\ repository' = r.repository
          /\ call' = [op |-> "create", name |-> name, ok |-> r.ok, id |-> r.id]
    /\ UNCHANGED <<locks, batchVars, trackerVars, state, schedVars, events, connVars,
                   http>>

RepoDelete(id) ==
    /\ LET r == PsetRepository_delete(repository, id)
       IN /\ repository' = r.repository
          /\ call' = [op |-> "delete", id |-> id, ok |-> r.ok]
    /\ UNCHANGED <<locks, batchVars, trackerVars, state, schedVars, events, connVars,
                   http>>

\* ----------------------------------------------------------------- events
EvTighteningCompleted(info, ok) ==
    [type |-> "TighteningCompleted", tightening_id |-> info.tightening_id,
     batch_counter |-> info.counter, ok |-> ok]
EvPsetChanged(pset_id) == [type |-> "PsetChanged", pset_id |-> pset_id]
EvToolStateChanged(enabled) == [type |-> "ToolStateChanged", enabled |-> enabled]
EvBatchCompleted(total) == [type |-> "BatchCompleted", total |-> total]
EvVehicleIdChanged(vin) == [type |-> "VehicleIdChanged", vin |-> vin]
EvMultiSpindleStatusCompleted(status) ==
    [type |-> "MultiSpindleStatusCompleted", status |-> status]
EvMultiSpindleResultCompleted(result_id, ok) ==
    [type |-> "MultiSpindleResultCompleted", result_id |-> result_id, ok |-> ok]
EvAutoTighteningProgress(counter, target_size, running) ==
    [type |-> "AutoTighteningProgress", counter |-> counter,
     target_size |-> target_size, running |-> running]

\* broadcast::Sender::send: the value is appended for every receiver
Broadcaster_send(log, event) == Append(log, event)

\* ------------------------------------------------------- failure_simulator
\* Rates are in percent: 0 is 0.0 and 100 is 1.0.
\* rng.random::<f64>() lies in [0, 1): a rate of 1.0 always fires.
FS_chance(config, rate) ==
    IF ~config.enabled \/ rate = 0 THEN {FALSE}
    ELSE IF rate >= 100 THEN {TRUE}
    ELSE BOOLEAN

FS_should_disconnect(config) == FS_chance(config, config.force_disconnect_rate)

FS_should_drop_packet(config) == FS_chance(config, config.packet_loss_rate)

FS_should_corrupt_message(config) == FS_chance(config, config.corruption_rate)

FS_get_delay(config) ==
    IF ~config.enabled \/ config.delay_max_ms = 0 THEN {0}
    ELSE IF config.delay_min_ms >= config.delay_max_ms THEN {config.delay_max_ms}
    ELSE config.delay_min_ms..config.delay_max_ms

\* the decisions send_with_failure_injection draws before acting
FS_decisions(config) ==
    {[disconnect |-> a, drop |-> b, delay |-> d, corrupt |-> k] :
        a \in FS_should_disconnect(config), b \in FS_should_drop_packet(config),
        d \in FS_get_delay(config), k \in FS_should_corrupt_message(config)}

\* an injector that looks at the drop decision before the disconnect decision
SendOutcome_drop_first(config, d, io_ok) ==
    IF ~config.enabled
    THEN [written |-> IF io_ok THEN "original" ELSE "none", slept |-> 0,
          ret |-> IF io_ok THEN "Ok(true)" ELSE "Err", by |-> "socket"]
    ELSE IF d.drop
    THEN [written |-> "none", slept |-> 0, ret |-> "Ok(false)", by |-> "injector"]
    ELSE IF d.disconnect
    THEN [written |-> "none", slept |-> 0, ret |-> "Err", by |-> "injector"]
    ELSE [written |-> IF ~io_ok THEN "none"
                      ELSE IF d.corrupt THEN "corrupted" ELSE "original",
          slept |-> d.delay,
          ret |-> IF io_ok THEN "Ok(true)" ELSE "Err", by |-> "socket"]

\* What one call of send_with_failure_injection does with the frame, given
\* the decisions drawn and whether the socket accepts the write: what reaches
\* the socket, how long the call slept, what it returns, and who refused.
SendOutcome(config, d, io_ok) ==
    IF ~config.enabled
    THEN [written |-> IF io_ok THEN "original" ELSE "none", slept |-> 0,
          ret |-> IF io_ok THEN "Ok(true)" ELSE "Err", by |-> "socket"]
    ELSE IF d.disconnect
    THEN [written |-> "none", slept |-> 0, ret |-> "Err", by |-> "injector"]
    ELSE IF d.drop
    THEN [written |-> "none", slept |-> 0, ret |-> "Ok(false)", by |-> "injector"]
    ELSE [written |-> IF ~io_ok THEN "none"
                      ELSE IF d.corrupt THEN "corrupted" ELSE "original",
          slept |-> d.delay,
          ret |-> IF io_ok THEN "Ok(true)" ELSE "Err", by |-> "socket"]

\* ------------------------------------------------------------ subscriptions
SubKinds == {"tightening_result", "pset_selection", "vehicle_id",
             "multi_spindle_status", "multi_spindle_result"}

Subscriptions_new == [k \in SubKinds |-> FALSE]

\* the session call main.rs makes for a request MID, before the handler runs
\* a session whose unsubscribe requests drop every subscription
Session_track_unsubscribe_all(subs, mid) ==
    CASE mid = 60 -> [subs EXCEPT !["tightening_result"] = TRUE]
      [] mid = 14 -> [subs EXCEPT !["pset_selection"] = TRUE]
      [] mid = 51 -> [subs EXCEPT !["vehicle_id"] = TRUE]
      [] mid = 90 -> [subs EXCEPT !["multi_spindle_status"] = TRUE]
      [] mid = 100 -> [subs EXCEPT !["multi_spindle_result"] = TRUE]
      [] mid \in {63, 17, 54, 92, 103} -> Subscriptions_new
      [] OTHER -> subs

Session_track(subs, mid) ==
    CASE mid = 60 -> [subs EXCEPT !["tightening_result"] = TRUE]
      [] mid = 63 -> [subs EXCEPT !["tightening_result"] = FALSE]
      [] mid = 14 -> [subs EXCEPT !["pset_selection"] = TRUE]
      [] mid = 17 -> [subs EXCEPT !["pset_selection"] = FALSE]
      [] mid = 51 -> [subs EXCEPT !["vehicle_id"] = TRUE]
      [] mid = 54 -> [subs EXCEPT !["vehicle_id"] = FALSE]
      [] mid = 90 -> [subs EXCEPT !["multi_spindle_status"] = TRUE]
      [] mid = 92 -> [subs EXCEPT !["multi_spindle_status"] = FALSE]
      [] mid = 100 -> [subs EXCEPT !["multi_spindle_result"] = TRUE]
      [] mid = 103 -> [subs EXCEPT !["multi_spindle_result"] = FALSE]
      [] OTHER -> subs

\* an event branch that forwards parameter-set changes to every session
EventFrameMid_pset_unfiltered(subs, event) ==
    CASE event.type = "TighteningCompleted" ->
            IF subs["tightening_result"] THEN 61 ELSE 0
      [] event.type = "PsetChanged" -> 15
      [] event.type = "VehicleIdChanged" ->
            IF subs["vehicle_id"] THEN 52 ELSE 0
      [] event.type = "MultiSpindleStatusCompleted" ->
            IF subs["multi_spindle_status"] THEN 91 ELSE 0
      [] event.type = "MultiSpindleResultCompleted" ->
            IF subs["multi_spindle_result"] THEN 101 ELSE 0
      [] OTHER -> 0

\* the event branch of the connection task: which frame an event becomes for
\* a session with these subscriptions; 0 is no frame
EventFrameMid(subs, event) ==
    CASE event.type = "TighteningCompleted" ->
            IF subs["tightening_result"] THEN 61 ELSE 0
      [] event.type = "PsetChanged" ->
            IF subs["pset_selection"] THEN 15 ELSE 0
      [] event.type = "VehicleIdChanged" ->
            IF subs["vehicle_id"] THEN 52 ELSE 0
      [] event.type = "MultiSpindleStatusCompleted" ->
            IF subs["multi_spindle_status"] THEN 91 ELSE 0
      [] event.type = "MultiSpindleResultCompleted" ->
            IF subs["multi_spindle_result"] THEN 101 ELSE 0
      [] OTHER -> 0

\* ----------------------------------------------------------------- handlers
RegisteredMids == {1, 3, 14, 17, 18, 19, 42, 43, 50, 51, 53, 54, 60, 62, 63,
                   90, 92, 93, 100, 102, 103, 9999}

\* MID 0018: the PSET id is parsed from the data, 1 when absent
PsetSelectHandler_handle(message, s, log) ==
    LET pset_id == IF message.data # <<>> THEN message.data[1] ELSE 1
    IN [state |-> DeviceState_set_pset(s, pset_id), events |-> log, mid |-> 16]

\* MID 0050: the VIN is taken from the data, "NO_VIN" when absent
VehicleIdDownloadHandler_handle(message, s, log) ==
    LET vin == IF message.data # <<>> THEN message.data[1] ELSE "NO_VIN"
    IN [state |-> DeviceState_set_vehicle_id(s, vin), events |-> log, mid |-> 5]

\* MID 0019: the batch size is parsed from the data, 1 when absent
BatchSizeHandler_handle(message, s, log) ==
    LET batch_size == IF message.data # <<>> THEN message.data[1] ELSE 1
    IN [state |-> DeviceState_set_batch_size(s, batch_size), events |-> log,
        mid |-> 5]

\* MID 0042 goes through ObservableState::disable_tool
ToolDisableHandler_handle(message, s, log) ==
    [state |-> [s EXCEPT !.tool_enabled = FALSE],
     events |-> Broadcaster_send(log, EvToolStateChanged(FALSE)), mid |-> 5]

\* MID 0043 writes the shared state directly
ToolEnableHandler_handle(message, s, log) ==
    [state |-> [s EXCEPT !.tool_enabled = TRUE], events |-> log, mid |-> 5]

\* HandlerRegistry::handle_message: the response MID and the effects, or
\* ok = FALSE for HandlerError::UnknownMid
Registry_handle_message(message, s, log) ==
    LET same(mid) == [ok |-> TRUE, state |-> s, events |-> log, mid |-> mid]
        done(r) == [ok |-> TRUE, state |-> r.state, events |-> r.events,
                    mid |-> r.mid]
    IN CASE message.mid \notin RegisteredMids ->
                [ok |-> FALSE, state |-> s, events |-> log, mid |-> 0]
         [] message.mid = 1 -> same(2)
         [] message.mid = 9999 -> same(9999)
         [] message.mid = 18 -> done(PsetSelectHandler_handle(message, s, log))
         [] message.mid = 19 -> done(BatchSizeHandler_handle(message, s, log))
         [] message.mid = 42 -> done(ToolDisableHandler_handle(message, s, log))
         [] message.mid = 43 -> done(ToolEnableHandler_handle(message, s, log))
         [] message.mid = 50 -> done(VehicleIdDownloadHandler_handle(message, s, log))
         [] OTHER -> same(5)

\* -------------------------------------------------------------- scheduler
Loops == 1..NumStarters
Starters == 1..NumStarters

NoLoop ==
    [pc |-> "none", remaining |-> <<>>, result_id |-> 0, ok |-> TRUE,
     counter |-> 0, batch_completed |-> FALSE, target |-> 0]

LoopAlive(l) == loops[l].pc \notin {"none", "done"}

\* the task is inside a tightening cycle: past the checks, before the sleep
LoopInCycle(l) ==
    loops[l].pc \in {"start", "run", "mode", "ms_ids", "ms_running", "ms_result",
                     "ms_completed", "ms_add", "ss_add", "ss_publish",
                     "progress", "batch", "idle"}

\* generate_multi_spindle_results(..).is_ok(): only the last spindle can be NOK
MultiSpindle_is_ok(result_id) == result_id % 10 # 0

\* start_auto_tightening, one request per starter: the flag is loaded (409 when
\* it was set) ...
StartLoad(s) ==
    /\ starters[s].pc = "idle"
    /\ starters' = [starters EXCEPT ![s] =
          IF auto_active THEN [pc |-> "done", resp |-> 409]
                         ELSE [pc |-> "store", resp |-> 0]]
    /\ UNCHANGED <<callVars, sim, batchVars, trackerVars, state, auto_active, loops, stopper,
                   events, connVars>>

\* ... and, when it was clear, stored and the loop task spawned
StartSpawn(s) ==
    /\ starters[s].pc = "store"
    /\ \E l \in Loops :
          /\ loops[l].pc = "none"
          /\ \A k \in Loops : k < l => loops[k].pc # "none"
          /\ loops' = [loops EXCEPT ![l] = [NoLoop EXCEPT !.pc = "while"]]
    /\ auto_active' = TRUE
    /\ starters' = [starters EXCEPT ![s] = [pc |-> "done", resp |-> 200]]
    /\ UNCHANGED <<callVars, sim, batchVars, trackerVars, state, stopper, events, connVars>>

\* while auto_active.load(..)
LoopWhile(l) ==
    /\ loops[l].pc = "while"
    /\ loops' = [loops EXCEPT ![l].pc = IF auto_active THEN "tool" ELSE "exit"]
    /\ UNCHANGED <<callVars, sim, batchVars, trackerVars, state, auto_active, starters, stopper,
                   events, connVars>>

\* a scheduler that does not look at the tool
LoopTool_unchecked(l) ==
    /\ loops[l].pc = "tool"
    /\ loops' = [loops EXCEPT ![l].pc = "work"]
    /\ UNCHANGED <<callVars, sim, batchVars, trackerVars, state, auto_active, starters,
                   stopper, events, connVars>>

\* if !tool_enabled { break }
LoopTool(l) ==
    /\ loops[l].pc = "tool"
    /\ loops' = [loops EXCEPT ![l].pc =
                    IF state.tool_enabled THEN "work" ELSE "exit"]
    /\ UNCHANGED <<callVars, sim, batchVars, trackerVars, state, auto_active, starters, stopper,
                   events, connVars>>

\* should_wait_for_config / remaining_work, read under one read lock
LoopWork(l) ==
    /\ loops[l].pc = "work"
    /\ LET should_wait == TR_should_wait_for_config(state.tightening_tracker)
           remaining == TR_remaining_work(state.tightening_tracker)
       IN loops' = [loops EXCEPT ![l] =
             IF should_wait \/ remaining = <<0>>
             THEN [@ EXCEPT !.pc = "sleep"]
             ELSE [@ EXCEPT !.pc = "start", !.remaining = remaining]]
    /\ UNCHANGED <<callVars, sim, batchVars, trackerVars, state, auto_active, starters, stopper,
                   events, connVars>>

\* phase 1: the snapshot becomes Tightening
LoopStart(l) ==
    /\ loops[l].pc = "start"
    /\ state' = [state EXCEPT !.device_fsm_state = "Tightening"]
    /\ loops' = [loops EXCEPT ![l].pc = "run"]
    /\ UNCHANGED <<callVars, sim, batchVars, trackerVars, auto_active, starters, stopper,
                   events, connVars>>

\* phases 2 and 3: after the sleep the snapshot becomes Evaluating
LoopEvaluate(l) ==
    /\ loops[l].pc = "run"
    /\ state' = [state EXCEPT !.device_fsm_state = "Evaluating"]
    /\ loops' = [loops EXCEPT ![l].pc = "mode"]
    /\ UNCHANGED <<callVars, sim, batchVars, trackerVars, auto_active, starters, stopper,
                   events, connVars>>

\* phase 4: multi_spindle_config is read
LoopMode(l) ==
    /\ loops[l].pc = "mode"
    /\ loops' = [loops EXCEPT ![l].pc =
          IF state.multi_spindle_config.enabled THEN "ms_ids" ELSE "ss_add"]
    /\ UNCHANGED <<callVars, sim, batchVars, trackerVars, state, auto_active, starters, stopper,
                   events, connVars>>

\* multi-spindle path: result_id is the next sequence number
LoopMsIds(l) ==
    /\ loops[l].pc = "ms_ids"
    /\ loops' = [loops EXCEPT ![l] =
          [@ EXCEPT !.pc = "ms_running",
                    !.result_id = state.tightening_tracker.tightening_sequence + 1]]
    /\ UNCHANGED <<callVars, sim, batchVars, trackerVars, state, auto_active, starters, stopper,
                   events, connVars>>

LoopMsRunning(l) ==
    /\ loops[l].pc = "ms_running"
    /\ Len(events) < MaxSchedEvents
    /\ events' = Broadcaster_send(events, EvMultiSpindleStatusCompleted("Running"))
    /\ loops' = [loops EXCEPT ![l].pc = "ms_result"]
    /\ UNCHANGED <<callVars, sim, batchVars, trackerVars, state, auto_active, starters, stopper,
                   connVars>>

LoopMsResult(l) ==
    /\ loops[l].pc = "ms_result"
    /\ Len(events) < MaxSchedEvents
    /\ LET overall_ok == MultiSpindle_is_ok(loops[l].result_id)
       IN /\ events' = Broadcaster_send(events,
                  EvMultiSpindleResultCompleted(loops[l].result_id, overall_ok))
          /\ loops' = [loops EXCEPT ![l] =
                  [@ EXCEPT !.pc = "ms_completed", !.ok = overall_ok]]
    /\ UNCHANGED <<callVars, sim, batchVars, trackerVars, state, auto_active, starters, stopper,
                   connVars>>

\* a multi-spindle path that goes on without the Completed status
LoopMsCompleted_skipped(l) ==
    /\ loops[l].pc = "ms_completed"
    /\ loops' = [loops EXCEPT ![l].pc = "ms_add"]
    /\ UNCHANGED <<callVars, sim, batchVars, trackerVars, state, auto_active, starters,
                   stopper, events, connVars>>

LoopMsCompleted(l) ==
    /\ loops[l].pc = "ms_completed"
    /\ Len(events) < MaxSchedEvents
    /\ events' = Broadcaster_send(events, EvMultiSpindleStatusCompleted("Completed"))
    /\ loops' = [loops EXCEPT ![l].pc = "ms_add"]
    /\ UNCHANGED <<callVars, sim, batchVars, trackerVars, state, auto_active, starters, stopper,
                   connVars>>

\* the tracker is updated under the write lock (both paths)
LoopAdd(l) ==
    /\ loops[l].pc \in {"ms_add", "ss_add"}
    /\ state.tightening_tracker.tightening_sequence < MaxCycles + sim.n
    /\ \E final_ok \in BOOLEAN :
          LET ok == IF loops[l].pc = "ms_add" THEN loops[l].ok ELSE final_ok
              r == TR_add_tightening(state.tightening_tracker, ok)
          IN /\ state' = [state EXCEPT !.tightening_tracker = r.tracker]
             /\ loops' = [loops EXCEPT ![l] =
                   [@ EXCEPT !.pc = IF loops[l].pc = "ms_add" THEN "progress"
                                    ELSE "ss_publish",
                             !.ok = ok,
                             !.result_id = r.info.tightening_id,
                             !.counter = r.info.counter,
                             !.batch_completed = TR_is_complete(r.tracker),
                             !.target = TR_batch_size(r.tracker)]]
    /\ UNCHANGED <<callVars, sim, batchVars, trackerVars, auto_active, starters, stopper,
                   events, connVars>>

\* single-spindle path: the result is broadcast
LoopSsPublish(l) ==
    /\ loops[l].pc = "ss_publish"
    /\ Len(events) < MaxSchedEvents
    /\ events' = Broadcaster_send(events,
          EvTighteningCompleted([tightening_id |-> loops[l].result_id,
                                 counter |-> loops[l].counter], loops[l].ok))
    /\ loops' = [loops EXCEPT ![l].pc = "progress"]
    /\ UNCHANGED <<callVars, sim, batchVars, trackerVars, state, auto_active, starters, stopper,
                   connVars>>

\* broadcast_auto_progress(batch_counter, target_size, auto_active.load())
LoopProgress(l) ==
    /\ loops[l].pc = "progress"
    /\ Len(events) < MaxSchedEvents
    /\ events' = Broadcaster_send(events,
          EvAutoTighteningProgress(loops[l].counter, loops[l].target, auto_active))
    /\ loops' = [loops EXCEPT ![l].pc = "batch"]
    /\ UNCHANGED <<callVars, sim, batchVars, trackerVars, state, auto_active, starters, stopper,
                   connVars>>

\* if batch_completed { broadcast(BatchCompleted) }
LoopBatch(l) ==
    /\ loops[l].pc = "batch"
    /\ loops[l].batch_completed => Len(events) < MaxSchedEvents
    /\ events' = IF loops[l].batch_completed
                 THEN Broadcaster_send(events, EvBatchCompleted(loops[l].counter))
                 ELSE events
    /\ loops' = [loops EXCEPT ![l].pc = "idle"]
    /\ UNCHANGED <<callVars, sim, batchVars, trackerVars, state, auto_active, starters, stopper,
                   connVars>>

\* phase 5: the snapshot returns to Idle
LoopIdle(l) ==
    /\ loops[l].pc = "idle"
    /\ state' = [state EXCEPT !.device_fsm_state = "Idle"]
    /\ loops' = [loops EXCEPT ![l] = [NoLoop EXCEPT !.pc = "sleep"]]
    /\ UNCHANGED <<callVars, sim, batchVars, trackerVars, auto_active, starters, stopper,
                   events, connVars>>

\* sleep(interval_ms) ends; back to the loop condition
LoopSleep(l) ==
    /\ loops[l].pc = "sleep"
    /\ loops' = [loops EXCEPT ![l] = [NoLoop EXCEPT !.pc = "while"]]
    /\ UNCHANGED <<callVars, sim, batchVars, trackerVars, state, auto_active, starters, stopper,
                   events, connVars>>

\* after the loop: auto_active.store(false)
LoopExit(l) ==
    /\ loops[l].pc = "exit"
    /\ auto_active' = FALSE
    /\ loops' = [loops EXCEPT ![l] = [NoLoop EXCEPT !.pc = "done"]]
    /\ UNCHANGED <<callVars, sim, batchVars, trackerVars, state, starters, stopper, events,
                   connVars>>

\* stop_auto_tightening: swap(false)
StopSwap ==
    /\ stopper.pc = "idle"
    /\ stopper.n < MaxStops
    /\ auto_active' = FALSE
    /\ stopper' = [stopper EXCEPT !.pc = IF auto_active THEN "read" ELSE "idle",
                                  !.n = @ + 1,
                                  !.stopped = @ \cup {l \in Loops : LoopAlive(l)}]
    /\ UNCHANGED <<callVars, sim, batchVars, trackerVars, state, loops, starters, events,
                   connVars>>

StopRead ==
    /\ stopper.pc = "read"
    /\ stopper' = [stopper EXCEPT !.pc = "broadcast",
                      !.counter = TR_counter(state.tightening_tracker),
                      !.target = TR_batch_size(state.tightening_tracker)]
    /\ UNCHANGED <<callVars, sim, batchVars, trackerVars, state, auto_active, loops, starters,
                   events, connVars>>

StopBroadcast ==
    /\ stopper.pc = "broadcast"
    /\ Len(events) < MaxSchedEvents
    /\ events' = Broadcaster_send(events,
          EvAutoTighteningProgress(stopper.counter, stopper.target, FALSE))
    /\ stopper' = [stopper EXCEPT !.pc = "idle", !.counter = 0, !.target = 0]
    /\ UNCHANGED <<callVars, sim, batchVars, trackerVars, state, auto_active, loops, starters,
                   connVars>>

\* MID 0019 arriving while the scheduler runs
SetBatchSize(size) ==
    /\ LET r == BatchSizeHandler_handle([mid |-> 19, data |-> <<size>>], state, events)
       IN state' = r.state /\ events' = r.events
    /\ UNCHANGED <<callVars, batchVars, trackerVars, schedVars, events, connVars>>

\* POST /config/multi-spindle
ConfigureMultiSpindle(enabled, spindle_count, sync_id) ==
    /\ state' = IF enabled
                THEN DeviceState_enable_multi_spindle(state, spindle_count,
                                                      sync_id).state
                ELSE DeviceState_disable_multi_spindle(state)
    /\ UNCHANGED <<callVars, batchVars, trackerVars, schedVars, events, connVars>>

\* the scheduler task l stands at a step that the bounds on the number of
\* cycles and of events do not let it take
LoopAtHorizon(l) ==
    \/ /\ loops[l].pc \in {"ms_add", "ss_add"}
       /\ state.tightening_tracker.tightening_sequence >= MaxCycles + sim.n
    \/ /\ \/ loops[l].pc \in {"ms_running", "ms_result", "ms_completed",
                              "ss_publish", "progress"}
          \/ loops[l].pc = "batch" /\ loops[l].batch_completed
       /\ Len(events) >= MaxSchedEvents

\* MID 0042 arriving while the scheduler runs
ToolDisable ==
    /\ LET r == ToolDisableHandler_handle([mid |-> 42, data |-> <<>>], state, events)
       IN /\ Len(r.events) <= MaxSchedEvents
          /\ state' = r.state
          /\ events' = r.events
    /\ UNCHANGED <<callVars, batchVars, trackerVars, schedVars, connVars>>

\* MID 0043 arriving while the scheduler runs
ToolEnable ==
    /\ ~state.tool_enabled
    /\ LET r == ToolEnableHandler_handle([mid |-> 43, data |-> <<>>], state, events)
       IN state' = r.state /\ events' = r.events
    /\ UNCHANGED <<callVars, batchVars, trackerVars, schedVars, connVars>>

NoSim ==
    [pc |-> "idle", n |-> 0, ok |-> TRUE, tightening_id |-> 0, counter |-> 0,
     batch_status |-> "NotUsed", batch_completed |-> FALSE]

\* simulate_tightening: after the FSM run the result is added to the tracker
\* under the write lock ...
SimAdd(ok) ==
    /\ sim.pc = "idle"
    /\ sim.n < MaxSims
    /\ LET r == TR_add_tightening(state.tightening_tracker, ok)
       IN /\ state' = [state EXCEPT !.tightening_tracker = r.tracker]
          /\ sim' = [pc |-> "publish", n |-> sim.n + 1, ok |-> ok,
                     tightening_id |-> r.info.tightening_id,
                     counter |-> r.info.counter,
                     batch_status |-> r.info.batch_status,
                     batch_completed |-> TR_is_complete(r.tracker)]
    /\ UNCHANGED <<callVars, batchVars, trackerVars, auto_active, loops, starters, stopper,
                   events, connVars>>

\* a handler that never announces the end of a batch
SimPublish_never_batch ==
    /\ sim.pc = "publish"
    /\ Len(events) < MaxSchedEvents
    /\ events' = Broadcaster_send(events,
          EvTighteningCompleted([tightening_id |-> sim.tightening_id,
                                 counter |-> sim.counter], sim.ok))
    /\ sim' = [sim EXCEPT !.pc = "idle"]
    /\ UNCHANGED <<callVars, batchVars, trackerVars, state, auto_active, loops, starters,
                   stopper, connVars>>

\* ... then TighteningCompleted is broadcast ...
SimPublish ==
    /\ sim.pc = "publish"
    /\ Len(events) < MaxSchedEvents
    /\ events' = Broadcaster_send(events,
          EvTighteningCompleted([tightening_id |-> sim.tightening_id,
                                 counter |-> sim.counter], sim.ok))
    /\ sim' = [sim EXCEPT !.pc = IF sim.batch_completed THEN "batch" ELSE "idle"]
    /\ UNCHANGED <<callVars, batchVars, trackerVars, state, auto_active, loops, starters,
                   stopper, connVars>>

\* ... and BatchCompleted when the tracker was complete
SimBatch ==
    /\ sim.pc = "batch"
    /\ Len(events) < MaxSchedEvents
    /\ events' = Broadcaster_send(events, EvBatchCompleted(sim.counter))
    /\ sim' = [sim EXCEPT !.pc = "idle"]
    /\ UNCHANGED <<callVars, batchVars, trackerVars, state, auto_active, loops, starters,
                   stopper, connVars>>

\* ------------------------------------------------------------------ RwLock
\* std::sync::RwLock, once around the DeviceState and once around the PSET
\* repository: the task that holds it for writing, the tasks that hold it for
\* reading
RwLock_new == [writer |-> "none", readers |-> {}]

RwLock_can_read(l) == l.writer = "none"

RwLock_can_write(l) == l.writer = "none" /\ l.readers = {}

\* --------------------------------------------------------- pset endpoints
\* by_select: current_pset_id was last written by POST /psets/{id}/select
IdleHttp ==
    [select |-> [pc |-> "idle", id |-> 0, resp |-> 0],
     delete |-> [pc |-> "idle", id |-> 0, resp |-> 0],
     by_select |-> FALSE,
     ws |-> [pc |-> "none", peer |-> "none", cursor |-> 0, out |-> 0,
             sent |-> 0, lagged |-> FALSE]]

PsetRepository_get_by_id(r, id) ==
    LET found == SelectSeq(r.psets, LAMBDA p : p.id = id)
    IN IF found = <<>> THEN <<>> ELSE <<found[1]>>

\* select_pset: the repository is read under its read lock; 404 when the id
\* is not there
SelectCheck(id) ==
    /\ http.select.pc = "idle"
    /\ RwLock_can_read(locks.repo)
    /\ Len(events) < MaxSelects
    /\ http' = [http EXCEPT !.select =
          IF PsetRepository_get_by_id(repository, id) = <<>>
          THEN [pc |-> "idle", id |-> id, resp |-> 404]
          ELSE [pc |-> "set", id |-> id, resp |-> 0]]
    /\ UNCHANGED <<locks, batchVars, trackerVars, state, schedVars, events, connVars,
                   repository, call>>

\* ... ObservableState::set_pset: the state is written under the write lock
SelectSet ==
    /\ http.select.pc = "set"
    /\ RwLock_can_write(locks.state)
    /\ state' = DeviceState_set_pset(state, http.select.id)
    /\ http' = [http EXCEPT !.select.pc = "publish", !.by_select = TRUE]
    /\ UNCHANGED <<locks, batchVars, trackerVars, schedVars, events, connVars,
                   repository, call>>

\* ... and PsetChanged is sent after the lock is released; 200
SelectPublish ==
    /\ http.select.pc = "publish"
    /\ events' = Broadcaster_send(events, EvPsetChanged(http.select.id))
    /\ http' = [http EXCEPT !.select.pc = "idle", !.select.resp = 200]
    /\ UNCHANGED <<locks, batchVars, trackerVars, state, schedVars, connVars,
                   repository, call>>

\* delete_pset: current_pset_id is read under the state's read lock; 409 when
\* it is the id to delete
DeleteCheck(id) ==
    /\ http.delete.pc = "idle"
    /\ RwLock_can_read(locks.state)
    /\ http' = [http EXCEPT !.delete =
          IF state.current_pset_id = <<id>>
          THEN [pc |-> "idle", id |-> id, resp |-> 409]
          ELSE [pc |-> "delete", id |-> id, resp |-> 0]]
    /\ UNCHANGED <<locks, batchVars, trackerVars, state, schedVars, events, connVars,
                   repository, call>>

\* ... then the repository is written under its write lock: 200, 404 when the
\* id is not found, 400 for any other error
DeleteApply ==
    /\ http.delete.pc = "delete"
    /\ RwLock_can_write(locks.repo)
    /\ LET r == PsetRepository_delete(repository, http.delete.id)
           found == PsetRepository_get_by_id(repository, http.delete.id) # <<>>
       IN /\ repository' = r.repository
          /\ call' = [op |-> "delete", id |-> http.delete.id, ok |-> r.ok]
          /\ http' = [http EXCEPT !.delete.pc = "idle",
                         !.delete.resp = IF r.ok THEN 200
                                         ELSE IF found THEN 400 ELSE 404]
    /\ UNCHANGED <<locks, batchVars, trackerVars, state, schedVars, events, connVars>>

\* ------------------------------------------------------------------ locks
\* PUT /psets/{id}, POST /simulate/tightening, the scheduler task and a
\* connection task
LockTasks == {"update", "simulate", "sched", "conn"}

IdleLocks ==
    [state |-> RwLock_new, repo |-> RwLock_new,
     pc |-> [t \in LockTasks |-> "idle"],
     id |-> 0, resp |-> 0, n |-> 0,
     info |-> [t \in {"simulate", "sched"} |->
                 [tightening_id |-> 0, counter |-> 0, ok |-> TRUE,
                  batch_completed |-> FALSE]]]

\* the in-memory update replaces the entry by the body of the request
InMemoryPsetRepository_update(r, id, pset) ==
    IF \E i \in 1..Len(r.psets) : r.psets[i].id = id
    THEN LET i == CHOOSE k \in 1..Len(r.psets) : r.psets[k].id = id
         IN [repository |-> [r EXCEPT !.psets[i] =
                               [pset EXCEPT !.is_default = r.psets[i].is_default]],
             ok |-> TRUE]
    ELSE [repository |-> r, ok |-> FALSE]

\* UPDATE psets SET name = .. WHERE id = ..; the ranges of the body are taken
\* to be valid, the name must stay unique
SqlitePsetRepository_update(r, id, pset) ==
    IF \E i \in 1..Len(r.psets) : r.psets[i].id # id /\ r.psets[i].name = pset.name
    THEN [repository |-> r, ok |-> FALSE]
    ELSE IF \E i \in 1..Len(r.psets) : r.psets[i].id = id
    THEN LET i == CHOOSE k \in 1..Len(r.psets) : r.psets[k].id = id
         IN [repository |-> [r EXCEPT !.psets[i].name = pset.name], ok |-> TRUE]
    ELSE [repository |-> r, ok |-> FALSE]

PsetRepository_update(r, id, pset) ==
    IF r.kind = "memory" THEN InMemoryPsetRepository_update(r, id, pset)
    ELSE SqlitePsetRepository_update(r, id, pset)

\* update_pset: the repository write lock is taken and kept to the end ...
UpdateLock(id) ==
    /\ locks.pc["update"] = "idle"
    /\ locks.n < MaxRequests
    /\ RwLock_can_write(locks.repo)
    /\ locks' = [locks EXCEPT !.repo.writer = "update", !.pc["update"] = "update",
                              !.id = id, !.resp = 0, !.n = @ + 1]
    /\ UNCHANGED <<repository, call, http, batchVars, trackerVars, state, schedVars,
                   events, connVars>>

\* ... repo.update(id, pset): 400 on Err ...
UpdateApply(name) ==
    /\ locks.pc["update"] = "update"
    /\ LET r == PsetRepository_update(repository, locks.id,
                                      Pset_new(locks.id, name, FALSE))
       IN /\ repository' = r.repository
          /\ call' = [op |-> "update", id |-> locks.id, ok |-> r.ok]
          /\ locks' = IF r.ok
                      THEN [locks EXCEPT !.pc["update"] = "current"]
                      ELSE [locks EXCEPT !.pc["update"] = "idle", !.resp = 400,
                                         !.repo.writer = "none"]
    /\ UNCHANGED <<http, batchVars, trackerVars, state, schedVars, events, connVars>>

\* ... observable_state.read().current_pset_id, with the repository lock held ...
UpdateCurrent ==
    /\ locks.pc["update"] = "current"
    /\ RwLock_can_read(locks.state)
    /\ locks' = IF state.current_pset_id = <<locks.id>>
                THEN [locks EXCEPT !.pc["update"] = "set_pset"]
                ELSE [locks EXCEPT !.pc["update"] = "idle", !.resp = 200,
                                   !.repo.writer = "none"]
    /\ UNCHANGED <<repository, call, http, batchVars, trackerVars, state, schedVars,
                   events, connVars>>

\* ... ObservableState::set_pset: the write section on the state ...
UpdateSetPset ==
    /\ locks.pc["update"] = "set_pset"
    /\ RwLock_can_write(locks.state)
    /\ state' = DeviceState_set_pset(state, locks.id)
    /\ locks' = [locks EXCEPT !.pc["update"] = "publish"]
    /\ UNCHANGED <<repository, call, http, batchVars, trackerVars, schedVars, events,
                   connVars>>

\* ... its broadcast, and the handler returns 200 and drops the guard
UpdatePublish ==
    /\ locks.pc["update"] = "publish"
    /\ Len(events) < MaxSchedEvents
    /\ events' = Broadcaster_send(events, EvPsetChanged(locks.id))
    /\ locks' = [locks EXCEPT !.pc["update"] = "idle", !.resp = 200,
                              !.repo.writer = "none"]
    /\ UNCHANGED <<repository, call, http, batchVars, trackerVars, state, schedVars,
                   connVars>>

\* simulate_tightening and the scheduler: let s = observable_state.read() ...
ParamsRead(t) ==
    /\ locks.pc[t] = "idle"
    /\ locks.n < MaxRequests
    /\ RwLock_can_read(locks.state)
    /\ locks' = [locks EXCEPT !.state.readers = @ \cup {t}, !.pc[t] = "params",
                              !.n = @ + 1]
    /\ UNCHANGED <<repository, call, http, batchVars, trackerVars, state, schedVars,
                   events, connVars>>

\* ... get_tightening_params(s.current_pset_id, ..): pset_repo.read() while
\* the state guard lives; both guards are dropped at the end of the block
ParamsGet(t) ==
    /\ locks.pc[t] = "params"
    /\ state.current_pset_id # <<>> => RwLock_can_read(locks.repo)
    /\ locks' = [locks EXCEPT !.state.readers = @ \ {t},
                              !.pc[t] = IF t = "simulate" THEN "sleep"
                                        ELSE "w_tighten"]
    /\ UNCHANGED <<repository, call, http, batchVars, trackerVars, state, schedVars,
                   events, connVars>>

\* tokio::time::sleep(..).await is over
Wake(t) ==
    /\ locks.pc[t] \in {"sleep", "sleep_duration", "sleep_interval"}
    /\ locks' = [locks EXCEPT !.pc[t] =
                    CASE locks.pc[t] = "sleep" -> "w_record"
                      [] locks.pc[t] = "sleep_duration" -> "w_evaluate"
                      [] locks.pc[t] = "sleep_interval" -> "idle"]
    /\ UNCHANGED <<repository, call, http, batchVars, trackerVars, state, schedVars,
                   events, connVars>>

WriteSections == {"tighten", "evaluate", "record", "idle", "handler"}

\* observable_state.write() / self.state.write().unwrap()
WriteLock(t) ==
    /\ \E x \in WriteSections :
          /\ locks.pc[t] = "w_" \o x
          /\ RwLock_can_write(locks.state)
          /\ locks' = [locks EXCEPT !.state.writer = t, !.pc[t] = "h_" \o x]
    /\ UNCHANGED <<repository, call, http, batchVars, trackerVars, state, schedVars,
                   events, connVars>>

\* a scheduler that sleeps inside the block that holds the guard
SchedWrite_sleeps_with_guard ==
    /\ locks.pc["sched"] \in {"h_tighten", "h_evaluate", "h_idle"}
    /\ state' = [state EXCEPT !.device_fsm_state =
                    CASE locks.pc["sched"] = "h_tighten" -> "Tightening"
                      [] locks.pc["sched"] = "h_evaluate" -> "Evaluating"
                      [] locks.pc["sched"] = "h_idle" -> "Idle"]
    /\ locks' = [locks EXCEPT
                    !.state.writer = IF locks.pc["sched"] = "h_evaluate"
                                     THEN "none" ELSE "sched",
                    !.pc["sched"] =
                       CASE locks.pc["sched"] = "h_tighten" -> "sleep_duration"
                         [] locks.pc["sched"] = "h_evaluate" -> "w_record"
                         [] locks.pc["sched"] = "h_idle" -> "sleep_interval"]
    /\ UNCHANGED <<repository, call, http, batchVars, trackerVars, schedVars, events,
                   connVars>>

\* the scheduler's blocks that write device_fsm_state: the guard is dropped at
\* the end of the block, before the sleep that follows
SchedWrite ==
    /\ locks.pc["sched"] \in {"h_tighten", "h_evaluate", "h_idle"}
    /\ state' = [state EXCEPT !.device_fsm_state =
                    CASE locks.pc["sched"] = "h_tighten" -> "Tightening"
                      [] locks.pc["sched"] = "h_evaluate" -> "Evaluating"
                      [] locks.pc["sched"] = "h_idle" -> "Idle"]
    /\ locks' = [locks EXCEPT
                    !.state.writer = "none",
                    !.pc["sched"] =
                       CASE locks.pc["sched"] = "h_tighten" -> "sleep_duration"
                         [] locks.pc["sched"] = "h_evaluate" -> "w_record"
                         [] locks.pc["sched"] = "h_idle" -> "sleep_interval"]
    /\ UNCHANGED <<repository, call, http, batchVars, trackerVars, schedVars, events,
                   connVars>>

\* the block that records the tightening, in either task
Record(t, ok) ==
    /\ locks.pc[t] = "h_record"
    /\ LET r == TR_add_tightening(state.tightening_tracker, ok)
       IN /\ state' = [state EXCEPT !.tightening_tracker = r.tracker]
          /\ locks' = [locks EXCEPT
                !.state.writer = "none", !.pc[t] = "publish",
                !.info[t] = [tightening_id |-> r.info.tightening_id,
                             counter |-> r.info.counter, ok |-> ok,
                             batch_completed |-> TR_is_complete(r.tracker)]]
    /\ UNCHANGED <<repository, call, http, batchVars, trackerVars, schedVars, events,
                   connVars>>

\* the broadcasts after the block: TighteningCompleted, then BatchCompleted
\* when the tracker was complete
Publish(t) ==
    /\ locks.pc[t] = "publish"
    /\ Len(events) < MaxSchedEvents
    /\ LET i == locks.info[t]
           sent == Broadcaster_send(events,
                      EvTighteningCompleted([tightening_id |-> i.tightening_id,
                                             counter |-> i.counter], i.ok))
       IN events' = IF i.batch_completed
                    THEN Broadcaster_send(sent, EvBatchCompleted(i.counter))
                    ELSE sent
    /\ locks' = [locks EXCEPT !.pc[t] = IF t = "simulate" THEN "idle" ELSE "w_idle"]
    /\ UNCHANGED <<repository, call, http, batchVars, trackerVars, state, schedVars,
                   connVars>>

\* a connection task has read a MID 0018 frame from its socket
ConnRequest ==
    /\ locks.pc["conn"] = "idle"
    /\ locks.n < MaxRequests
    /\ locks' = [locks EXCEPT !.pc["conn"] = "w_handler", !.n = @ + 1]
    /\ UNCHANGED <<repository, call, http, batchVars, trackerVars, state, schedVars,
                   events, connVars>>

\* PsetSelectHandler::handle: the block that writes the state
ConnHandle(pset_id) ==
    /\ locks.pc["conn"] = "h_handler"
    /\ state' = PsetSelectHandler_handle([mid |-> 18, data |-> <<pset_id>>],
                                         state, events).state
    /\ locks' = [locks EXCEPT !.state.writer = "none", !.pc["conn"] = "respond"]
    /\ UNCHANGED <<repository, call, http, batchVars, trackerVars, schedVars, events,
                   connVars>>

\* framed.send(..).await of the MID 0016 answer is over
ConnRespond ==
    /\ locks.pc["conn"] = "respond"
    /\ locks' = [locks EXCEPT !.pc["conn"] = "idle"]
    /\ UNCHANGED <<repository, call, http, batchVars, trackerVars, state, schedVars,
                   events, connVars>>

\* --------------------------------------------------------------- connection
Conns == {1, 2}

HEADER_SIZE == 20

\* a header field whose characters are not an unsigned number
NotANumber == -1

\* a parser that trusts the declared length
parse_message_no_length_check(raw) ==
    IF raw.size < HEADER_SIZE THEN <<>>
    ELSE IF raw.length < 0 THEN <<>>
    ELSE IF raw.mid \notin 0..65535 THEN <<>>
    ELSE IF raw.revision \notin 0..255 THEN <<>>
    ELSE <<[length |-> raw.length, mid |-> raw.mid, revision |-> raw.revision,
            data |-> raw.data]>>

\* A raw inbound frame: its size in bytes and its header fields as written
\* (length in bytes 0-3, MID in bytes 4-7, revision in bytes 8-10), then the
\* payload, one element per byte.
\* parse_message: the message, or <<>> for a ProtocolError
parse_message(raw) ==
    IF raw.size < HEADER_SIZE THEN <<>>                  \* MessageTooShort
    ELSE IF raw.length < 0 THEN <<>>                     \* InvalidLength
    ELSE IF raw.size # raw.length THEN <<>>              \* LengthMismatch
    ELSE IF raw.mid \notin 0..65535 THEN <<>>            \* InvalidMid
    ELSE IF raw.revision \notin 0..255 THEN <<>>         \* InvalidRevision
    ELSE <<[length |-> raw.length, mid |-> raw.mid, revision |-> raw.revision,
            data |-> raw.data]>>

\* ------------------------------------------------------------- serializer
\* Bytes are one-character strings.
DigitChars == <<"0", "1", "2", "3", "4", "5", "6", "7", "8", "9">>

RECURSIVE Decimal(_)
\* format!("{}", n)
Decimal(n) ==
    IF n < 10 THEN <<DigitChars[n + 1]>>
    ELSE Decimal(n \div 10) \o <<DigitChars[(n % 10) + 1]>>

\* format!("{:0w$}", n): zero-padded to at least w characters, never cut
ZeroPadded(n, w) ==
    LET d == Decimal(n)
    IN IF Len(d) >= w THEN d ELSE [i \in 1..(w - Len(d)) |-> "0"] \o d

RECURSIVE DecimalValue(_)
DecimalValue(chars) ==
    IF chars = <<>> THEN 0
    ELSE 10 * DecimalValue(SubSeq(chars, 1, Len(chars) - 1))
         + ((CHOOSE k \in 1..10 : DigitChars[k] = chars[Len(chars)]) - 1)

\* str::parse::<uN>() of a field: NotANumber for an Err
ParseUnsigned(chars) ==
    IF chars # <<>> /\ \A i \in 1..Len(chars) :
                          \E k \in 1..10 : DigitChars[k] = chars[i]
    THEN DecimalValue(chars) ELSE NotANumber

serialize_response(response) ==
    ZeroPadded(HEADER_SIZE + Len(response.data), 4)
       \o ZeroPadded(response.mid, 4)
       \o ZeroPadded(response.revision, 3)
       \o [i \in 1..9 |-> " "]
       \o response.data

\* what parse_message reads in a byte slice: its size, the three header
\* fields and the payload
RawOfBytes(bytes) ==
    [size |-> Len(bytes),
     length |-> ParseUnsigned(SubSeq(bytes, 1, 4)),
     mid |-> ParseUnsigned(SubSeq(bytes, 5, 8)),
     revision |-> ParseUnsigned(SubSeq(bytes, 9, 11)),
     data |-> SubSeq(bytes, HEADER_SIZE + 1, Len(bytes))]

\* a response is serialized and the bytes are parsed back
SerializeResponse(response) ==
    /\ LET bytes == serialize_response(response)
       IN call' = [op |-> "serialize_response", response |-> response,
                   bytes |-> bytes, parsed |-> parse_message(RawOfBytes(bytes))]
    /\ UNCHANGED <<locks, batchVars, trackerVars, state, schedVars, events, connVars,
                   repository, http>>

\* a frame as a client's serializer writes it
RawFrame(mid, data) ==
    [size |-> HEADER_SIZE + Len(data), length |-> HEADER_SIZE + Len(data),
     mid |-> mid, revision |-> 1, data |-> data]

\* a frame cut before the end of its header
BadFrame ==
    [size |-> HEADER_SIZE - 1, length |-> HEADER_SIZE - 1, mid |-> 1,
     revision |-> 1, data |-> <<>>]

ErrorCode_InvalidData == 4
ErrorCode_GenericError == 99

\* ErrorResponse::serialize: the failed MID, then the error code
ErrorResponse_new(failed_mid, error_code) == <<failed_mid, error_code>>
ErrorResponse_invalid_data(failed_mid) ==
    ErrorResponse_new(failed_mid, ErrorCode_InvalidData)
\* an error path that reports every failure as invalid data
ErrorResponse_generic_as_invalid_data(failed_mid) ==
    ErrorResponse_new(failed_mid, ErrorCode_InvalidData)

ErrorResponse_generic(failed_mid) ==
    ErrorResponse_new(failed_mid, ErrorCode_GenericError)

\* a VIN field that is written as it is
VehicleIdBroadcast_serialize_unpadded(vin) == vin

\* VehicleIdBroadcast::serialize: the VIN (one element per character) in 25
\* characters, cut when longer and filled with spaces when shorter
VehicleIdBroadcast_serialize(vin) ==
    IF Len(vin) >= 25 THEN SubSeq(vin, 1, 25)
    ELSE vin \o [i \in 1..(25 - Len(vin)) |-> " "]

\* the frame a task is about to send: its MID, the request or the event it
\* answers, and its payload where the payload is an error or a VIN
NoOut == [mid |-> 0, req |-> 0, ev |-> 0, data |-> <<>>]

NoSend == [called |-> FALSE]

NewConn ==
    [pc |-> "none", subs |-> Subscriptions_new, cursor |-> 0, joined |-> 0,
     nread |-> 0, req_mid |-> 0, out |-> NoOut, eof_seen |-> FALSE,
     ntaken |-> 0]

ConnAlive(c) == conns[c].pc \notin {"none", "done"}

\* listener.accept(): the task gets its own receiver, which sees the events
\* sent from now on
Accept(c) ==
    /\ conns[c].pc = "none"
    /\ \A k \in Conns : k < c => conns[k].pc # "none"
    /\ conns' = [conns EXCEPT ![c] =
          [NewConn EXCEPT !.pc = "select", !.cursor = Len(events) + 1,
                          !.joined = Len(events)]]
    /\ peer' = [peer EXCEPT ![c] = "open"]
    /\ UNCHANGED <<callVars, batchVars, trackerVars, state, schedVars, events, inbox, lastSend>>

\* the client writes one frame
ClientSend(c, raw) ==
    /\ peer[c] = "open"
    /\ conns[c].nread + Len(inbox[c]) < MaxFrames
    /\ inbox' = [inbox EXCEPT ![c] = Append(@, raw)]
    /\ UNCHANGED <<callVars, batchVars, trackerVars, state, schedVars, events, conns, peer,
                   lastSend>>

\* the client closes its side, cleanly or in the middle of a frame
ClientClose(c, how) ==
    /\ peer[c] = "open"
    /\ peer' = [peer EXCEPT ![c] = how]
    /\ UNCHANGED <<callVars, batchVars, trackerVars, state, schedVars, events, conns, inbox,
                   lastSend>>

\* select!: Some(Ok(raw_message)) = framed.next()
ConnRead(c) ==
    /\ conns[c].pc = "select"
    /\ inbox[c] # <<>>
    /\ inbox' = [inbox EXCEPT ![c] = Tail(@)]
    /\ LET parsed == parse_message(Head(inbox[c]))
           n == conns[c].nread + 1
       IN IF parsed = <<>>
          THEN /\ conns' = [conns EXCEPT ![c].nread = n]
               /\ UNCHANGED <<state, events>>
          ELSE LET message == parsed[1]
                   r == Registry_handle_message(message, state, events)
               IN /\ Len(r.events) <= MaxEvents
                  /\ state' = r.state
                  /\ events' = r.events
                  /\ conns' = [conns EXCEPT ![c] =
                        [@ EXCEPT !.nread = n,
                                  !.subs = Session_track(@, message.mid),
                                  !.req_mid = IF r.ok THEN message.mid ELSE 0,
                                  !.out =
                                     IF r.ok
                                     THEN [mid |-> r.mid, req |-> n, ev |-> 0,
                                           data |-> <<>>]
                                     ELSE [mid |-> 4, req |-> n, ev |-> 0,
                                           data |-> ErrorResponse_generic(message.mid)],
                                  !.pc = "respond"]]
    /\ UNCHANGED <<callVars, batchVars, trackerVars, schedVars, peer, lastSend>>

\* select!: framed.next() yields None (clean end of stream: the branch is
\* disabled and the task keeps waiting for events) or Some(Err) (the stream
\* ended inside a frame: break)
ConnEof(c) ==
    /\ conns[c].pc = "select"
    /\ inbox[c] = <<>>
    /\ peer[c] # "open"
    /\ ~conns[c].eof_seen
    /\ conns' = [conns EXCEPT ![c] =
          IF peer[c] = "closed_partial"
          THEN [@ EXCEPT !.pc = "done", !.eof_seen = TRUE]
          ELSE [@ EXCEPT !.eof_seen = TRUE]]
    /\ UNCHANGED <<callVars, batchVars, trackerVars, state, schedVars, events, inbox, peer,
                   lastSend>>

\* a channel that keeps only the newest event
Receiver_oldest_capacity_one(log) == IF Len(log) > 1 THEN Len(log) ELSE 1

\* broadcast channel: the position of the oldest event the channel still holds
Receiver_oldest(log) ==
    IF Len(log) > ChannelCapacity THEN Len(log) - ChannelCapacity + 1 ELSE 1

\* the events a connection's receiver still holds for it, oldest first
Receiver_pending(c) == SubSeq(events, conns[c].cursor, Len(events))

\* a receiver whose recv() returns an event without moving past it
ConnRecv_keeps_cursor(c) ==
    /\ conns[c].pc = "select"
    /\ conns[c].cursor <= Len(events)
    /\ LET oldest == Receiver_oldest(events)
       IN IF conns[c].cursor < oldest
          THEN conns' = [conns EXCEPT ![c] =
                  [@ EXCEPT !.cursor = oldest,
                            !.pc = IF conns[c].eof_seen THEN "done" ELSE "select"]]
          ELSE LET event == events[conns[c].cursor]
                   mid == EventFrameMid(conns[c].subs, event)
               IN conns' = [conns EXCEPT ![c] =
                     [@ EXCEPT !.ntaken = @ + 1,
                               !.out = IF mid = 0 THEN NoOut
                                       ELSE [mid |-> mid, req |-> 0,
                                             ev |-> conns[c].cursor,
                                             data |-> <<>>],
                               !.pc = IF mid = 0 THEN "select" ELSE "forward"]]
    /\ UNCHANGED <<callVars, batchVars, trackerVars, state, schedVars, events, inbox, peer,
                   lastSend>>

\* select!: Ok(event) = event_rx.recv()
ConnRecv(c) ==
    /\ conns[c].pc = "select"
    /\ conns[c].cursor <= Len(events)
    /\ LET oldest == Receiver_oldest(events)
       IN IF conns[c].cursor < oldest
          THEN \* RecvError::Lagged: the receiver skips to the oldest event
               \* kept; with the inbound branch already disabled the select!
               \* has no branch left and the task panics
               conns' = [conns EXCEPT ![c] =
                  [@ EXCEPT !.cursor = oldest,
                            !.pc = IF conns[c].eof_seen THEN "done" ELSE "select"]]
          ELSE LET event == events[conns[c].cursor]
                   mid == EventFrameMid(conns[c].subs, event)
               IN conns' = [conns EXCEPT ![c] =
                     [@ EXCEPT !.cursor = @ + 1,
                               !.ntaken = @ + 1,
                               !.out = IF mid = 0 THEN NoOut
                                       ELSE [mid |-> mid, req |-> 0,
                                             ev |-> conns[c].cursor,
                                             data |-> <<>>],
                               !.pc = IF mid = 0 THEN "select" ELSE "forward"]]
    /\ UNCHANGED <<callVars, batchVars, trackerVars, state, schedVars, events, inbox, peer,
                   lastSend>>

\* a task that goes back to the select! right after the MID 0051 ack
AfterSend_no_vin(k, ret) ==
    IF ret = "Err"
    THEN [k EXCEPT !.pc = "done", !.out = NoOut]
    ELSE [k EXCEPT !.pc = "select", !.out = NoOut]

\* what the task does with the result of a send: break on Err; after the
\* response to MID 0051 the initial MID 0052 is sent next; otherwise the
\* select! is entered again
AfterSend(k, ret) ==
    IF ret = "Err"
    THEN [k EXCEPT !.pc = "done", !.out = NoOut]
    ELSE IF k.pc = "respond" /\ k.req_mid = 51
    THEN [k EXCEPT !.pc = "vin",
                   !.out = [mid |-> 52, req |-> k.out.req, ev |-> 0,
                            data |-> VehicleIdBroadcast_serialize(<<>>)]]
    ELSE [k EXCEPT !.pc = "select", !.out = NoOut]

\* send_with_failure_injection for the frame the task is about to send, and
\* what the task does with the result
ConnSend(c) ==
    /\ conns[c].pc \in {"respond", "vin", "forward"}
    /\ \E d \in FS_decisions(state.failure_config),
          io_ok \in (IF peer[c] = "open" THEN {TRUE} ELSE BOOLEAN) :
          LET o == SendOutcome(state.failure_config, d, io_ok)
          IN /\ lastSend' = [lastSend EXCEPT ![c] =
                   [called |-> TRUE, config |-> state.failure_config,
                    decisions |-> d, io_ok |-> io_ok, out |-> conns[c].out,
                    written |-> o.written, slept |-> o.slept, ret |-> o.ret,
                    by |-> o.by]]
             /\ conns' = [conns EXCEPT ![c] = AfterSend(@, o.ret)]
    /\ UNCHANGED <<callVars, batchVars, trackerVars, state, schedVars, events, inbox, peer>>

\* ObservableState::broadcast: any task may send any event
Broadcast(event) ==
    /\ Len(events) < MaxEvents
    /\ events' = Broadcaster_send(events, event)
    /\ UNCHANGED <<callVars, batchVars, trackerVars, state, schedVars, connVars>>

\* the failure configuration of the shared state is replaced
SetFailureConfig(config) ==
    /\ state.failure_config # config
    /\ state' = [state EXCEPT !.failure_config = config]
    /\ UNCHANGED <<callVars, batchVars, trackerVars, schedVars, events, connVars>>

\* ------------------------------------------------------------------ specs
IdleBatch == /\ bm = BM_new(0) /\ bmOp = [op |-> "none"]
IdleTracker == /\ tracker = TR_new /\ trOp = [op |-> "none"]
IdleSched ==
    /\ auto_active = FALSE
    /\ loops = [l \in Loops |-> NoLoop]
    /\ starters = [s \in Starters |-> [pc |-> "idle", resp |-> 0]]
    /\ stopper = [pc |-> "idle", n |-> 0, counter |-> 0, target |-> 0,
                  stopped |-> {}]
    /\ sim = NoSim
IdleDevice == /\ state = DeviceState_new /\ events = <<>>
IdleCalls ==
    /\ repository = InMemoryPsetRepository_new
    /\ call = [op |-> "none"]
    /\ http = IdleHttp
    /\ locks = IdleLocks

IdleConns ==
    /\ conns = [c \in Conns |-> NewConn]
    /\ inbox = [c \in Conns |-> <<>>]
    /\ peer = [c \in Conns |-> "none"]
    /\ lastSend = [c \in Conns |-> NoSend]

InitBatch ==
    /\ \E size \in 0..MaxTarget :
          /\ bm = BM_new(size)
          /\ bmOp = [op |-> "new", arg |-> size]
    /\ IdleTracker
    /\ IdleSched
    /\ IdleDevice
    /\ IdleConns
    /\ IdleCalls

NextBatch ==
    \/ \E size \in 0..MaxTarget : BmNew(size)
    \/ \E ok \in BOOLEAN : BmAddTightening(ok)
    \/ BmIncrement
    \/ BmReset
    \/ \E n \in 0..MaxTarget : BmSetTargetSize(n)

SpecBatch == InitBatch /\ [][NextBatch]_vars

InitTracker ==
    /\ IdleBatch
    /\ tracker = TR_new
    /\ trOp = [op |-> "new"]
    /\ IdleSched
    /\ IdleDevice
    /\ IdleConns
    /\ IdleCalls

NextTracker ==
    \/ \E ok \in BOOLEAN : TrAddTightening(ok)
    \/ \E size \in 0..MaxTarget : TrEnableBatch(size)
    \/ TrIncrementBatch
    \/ TrResetBatch

SpecTracker == InitTracker /\ [][NextTracker]_vars

InitSched ==
    /\ IdleBatch
    /\ IdleTracker
    /\ IdleSched
    /\ IdleDevice
    /\ IdleConns
    /\ IdleCalls

NextSched ==
    \/ \E s \in Starters : StartLoad(s)
    \/ \E s \in Starters : StartSpawn(s)
    \/ \E l \in Loops : LoopWhile(l)
    \/ \E l \in Loops : LoopTool(l)
    \/ \E l \in Loops : LoopWork(l)
    \/ \E l \in Loops : LoopStart(l)
    \/ \E l \in Loops : LoopEvaluate(l)
    \/ \E l \in Loops : LoopMode(l)
    \/ \E l \in Loops : LoopMsIds(l)
    \/ \E l \in Loops : LoopMsRunning(l)
    \/ \E l \in Loops : LoopMsResult(l)
    \/ \E l \in Loops : LoopMsCompleted(l)
    \/ \E l \in Loops : LoopAdd(l)
    \/ \E l \in Loops : LoopSsPublish(l)
    \/ \E l \in Loops : LoopProgress(l)
    \/ \E l \in Loops : LoopBatch(l)
    \/ \E l \in Loops : LoopIdle(l)
    \/ \E l \in Loops : LoopSleep(l)
    \/ \E l \in Loops : LoopExit(l)
    \/ StopSwap
    \/ StopRead
    \/ StopBroadcast
    \/ \E size \in 0..MaxBatch : SetBatchSize(size)
    \/ \E enabled \in BOOLEAN : ConfigureMultiSpindle(enabled, 2, 1)

SpecSched == InitSched /\ [][NextSched]_vars

ConfigForceDisconnect ==
    [enabled |-> TRUE, packet_loss_rate |-> 0, delay_min_ms |-> 0,
     delay_max_ms |-> 0, corruption_rate |-> 0, force_disconnect_rate |-> 100]
ConfigChaos ==
    [enabled |-> TRUE, packet_loss_rate |-> 50, delay_min_ms |-> 1,
     delay_max_ms |-> 1, corruption_rate |-> 50, force_disconnect_rate |-> 50]
ConfigSwitchedOff ==
    [enabled |-> FALSE, packet_loss_rate |-> 100, delay_min_ms |-> 1,
     delay_max_ms |-> 1, corruption_rate |-> 100, force_disconnect_rate |-> 100]
FailureConfigs == {FailureConfig_default, ConfigChaos, ConfigSwitchedOff}

ClientFrames ==
    {RawFrame(m, <<>>) : m \in {51, 60, 42, 7}}
    \cup {RawFrame(18, <<2>>), RawFrame(50, <<"VIN1">>), BadFrame}

BroadcastEvents ==
    {EvTighteningCompleted([tightening_id |-> 1, counter |-> 0], TRUE),
     EvVehicleIdChanged("VIN1")}

InitConn ==
    /\ IdleBatch
    /\ IdleTracker
    /\ IdleSched
    /\ IdleDevice
    /\ IdleConns
    /\ IdleCalls

\* one connection, every request and event kind, every failure configuration
NextConn ==
    \/ Accept(1)
    \/ \E raw \in ClientFrames : ClientSend(1, raw)
    \/ \E how \in {"closed_clean", "closed_partial"} : ClientClose(1, how)
    \/ ConnRead(1)
    \/ ConnEof(1)
    \/ ConnRecv(1)
    \/ ConnSend(1)
    \/ \E event \in BroadcastEvents : Broadcast(event)
    \/ \E config \in FailureConfigs : SetFailureConfig(config)

SpecConn == InitConn /\ [][NextConn]_vars

SubscriptionFrames ==
    {RawFrame(m, <<>>) : m \in {14, 17, 51, 54, 60, 63, 90, 92, 100, 103}}

AllEvents ==
    {EvTighteningCompleted([tightening_id |-> 1, counter |-> 0], TRUE),
     EvPsetChanged(2), EvToolStateChanged(TRUE), EvBatchCompleted(1),
     EvVehicleIdChanged("VIN1"), EvMultiSpindleStatusCompleted("Running"),
     EvMultiSpindleResultCompleted(1, TRUE),
     EvAutoTighteningProgress(1, 1, TRUE)}

InitSubs ==
    /\ IdleBatch
    /\ IdleTracker
    /\ IdleSched
    /\ IdleDevice
    /\ IdleConns
    /\ IdleCalls

\* one connection that subscribes and unsubscribes while every kind of event
\* is published
NextSubs ==
    \/ Accept(1)
    \/ \E raw \in SubscriptionFrames : ClientSend(1, raw)
    \/ ConnRead(1)
    \/ ConnRecv(1)
    \/ ConnSend(1)
    \/ \E event \in AllEvents : Broadcast(event)

SpecSubs == InitSubs /\ [][NextSubs]_vars

FanoutFrames == {RawFrame(60, <<>>), RawFrame(14, <<>>)}

FanoutEvents ==
    {EvTighteningCompleted([tightening_id |-> 1, counter |-> 0], TRUE),
     EvPsetChanged(2)}

FanoutConfigs == {FailureConfig_default, ConfigForceDisconnect}

InitFanout ==
    /\ IdleBatch
    /\ IdleTracker
    /\ IdleSched
    /\ IdleDevice
    /\ IdleConns
    /\ IdleCalls

\* several connections on one broadcast channel
NextFanout ==
    \/ \E c \in Conns : Accept(c)
    \/ \E c \in Conns, raw \in FanoutFrames : ClientSend(c, raw)
    \/ \E c \in Conns : ConnRead(c)
    \/ \E c \in Conns : ConnRecv(c)
    \/ \E c \in Conns : ConnSend(c)
    \/ \E event \in FanoutEvents : Broadcast(event)
    \/ \E config \in FanoutConfigs : SetFailureConfig(config)

SpecFanout == InitFanout /\ [][NextFanout]_vars

\* frames that parse_message rejects, one for each ProtocolError
MalformedFrames ==
    {BadFrame,
     [RawFrame(60, <<>>) EXCEPT !.length = NotANumber],
     [RawFrame(60, <<>>) EXCEPT !.length = HEADER_SIZE + 1],
     [RawFrame(60, <<>>) EXCEPT !.mid = NotANumber],
     [RawFrame(60, <<>>) EXCEPT !.revision = NotANumber],
     [RawFrame(60, <<>>) EXCEPT !.revision = 256]}

ProtoFrames ==
    {RawFrame(m, <<>>) : m \in {7, 20, 128, 51}}
    \cup {RawFrame(19, <<2>>)} \cup MalformedFrames

ProtoEvents == {EvVehicleIdChanged("VIN1")}

ProtoConfigs == {FailureConfig_default, ConfigChaos}

InitProto ==
    /\ IdleBatch
    /\ IdleTracker
    /\ IdleSched
    /\ IdleDevice
    /\ IdleConns
    /\ IdleCalls

\* one connection that receives unregistered, malformed and batch requests
NextProto ==
    \/ Accept(1)
    \/ \E raw \in ProtoFrames : ClientSend(1, raw)
    \/ ConnRead(1)
    \/ ConnRecv(1)
    \/ ConnSend(1)
    \/ \E event \in ProtoEvents : Broadcast(event)
    \/ \E config \in ProtoConfigs : SetFailureConfig(config)

SpecProto == InitProto /\ [][NextProto]_vars

InitTool ==
    /\ IdleBatch
    /\ IdleTracker
    /\ IdleSched
    /\ IdleDevice
    /\ IdleConns
    /\ IdleCalls

\* one step of the scheduler task l on the single-spindle path
LoopStep(l) ==
    \/ LoopWhile(l)
    \/ LoopTool(l)
    \/ LoopWork(l)
    \/ LoopStart(l)
    \/ LoopEvaluate(l)
    \/ LoopMode(l)
    \/ LoopAdd(l)
    \/ LoopSsPublish(l)
    \/ LoopProgress(l)
    \/ LoopBatch(l)
    \/ LoopIdle(l)
    \/ LoopSleep(l)
    \/ LoopExit(l)

\* one scheduler task while the tool is disabled and enabled over MID 0042 and
\* MID 0043, tightenings are injected over POST /simulate/tightening and the
\* batch size is set over MID 0019; no stop request
NextTool ==
    \/ StartLoad(1)
    \/ StartSpawn(1)
    \/ LoopWhile(1)
    \/ LoopTool(1)
    \/ LoopWork(1)
    \/ LoopStart(1)
    \/ LoopEvaluate(1)
    \/ LoopMode(1)
    \/ LoopAdd(1)
    \/ LoopSsPublish(1)
    \/ LoopProgress(1)
    \/ LoopBatch(1)
    \/ LoopIdle(1)
    \/ LoopSleep(1)
    \/ LoopExit(1)
    \/ ToolDisable
    \/ ToolEnable
    \/ \E ok \in BOOLEAN : SimAdd(ok)
    \/ SimPublish
    \/ SimBatch
    \/ \E size \in 0..MaxBatch : SetBatchSize(size)

SpecTool == InitTool /\ [][NextTool]_vars

\* the scheduler and the tool switch alone: no stop request, no injected
\* tightening
NextExit ==
    \/ \E s \in Starters : StartLoad(s)
    \/ \E s \in Starters : StartSpawn(s)
    \/ \E l \in Loops : LoopStep(l)
    \/ ToolDisable
    \/ ToolEnable
    \/ \E size \in 0..MaxBatch : SetBatchSize(size)

\* a spawned task is scheduled again and its sleeps end: every scheduler task
\* that can take a step eventually takes one
FairExit ==
    InitTool /\ [][NextExit]_vars /\ \A l \in Loops : WF_vars(LoopStep(l))

InitCycle ==
    /\ IdleBatch
    /\ IdleTracker
    /\ IdleSched
    /\ IdleDevice
    /\ IdleConns
    /\ IdleCalls

\* one scheduler task, the only publisher, while multi-spindle mode is
\* switched on and off over POST /config/multi-spindle and the batch size is
\* set over MID 0019
NextCycle ==
    \/ StartLoad(1)
    \/ StartSpawn(1)
    \/ LoopWhile(1)
    \/ LoopTool(1)
    \/ LoopWork(1)
    \/ LoopStart(1)
    \/ LoopEvaluate(1)
    \/ LoopMode(1)
    \/ LoopMsIds(1)
    \/ LoopMsRunning(1)
    \/ LoopMsResult(1)
    \/ LoopMsCompleted(1)
    \/ LoopAdd(1)
    \/ LoopSsPublish(1)
    \/ LoopProgress(1)
    \/ LoopBatch(1)
    \/ LoopIdle(1)
    \/ LoopSleep(1)
    \/ \E enabled \in BOOLEAN : ConfigureMultiSpindle(enabled, 2, 1)
    \/ \E size \in 0..MaxBatch : SetBatchSize(size)

SpecCycle == InitCycle /\ [][NextCycle]_vars

\* the device after MID 0019 has set a batch size
InitSim ==
    /\ IdleBatch
    /\ IdleTracker
    /\ IdleSched
    /\ \E size \in 1..MaxTarget :
          state = BatchSizeHandler_handle([mid |-> 19, data |-> <<size>>],
                                          DeviceState_new, <<>>).state
    /\ events = <<>>
    /\ IdleConns
    /\ IdleCalls

\* POST /simulate/tightening requests one after the other, each with the
\* outcome its FSM run yields
NextSim ==
    \/ \E ok \in BOOLEAN : SimAdd(ok)
    \/ SimPublish
    \/ SimBatch

SpecSim == InitSim /\ [][NextSim]_vars

InitMultiSpindle ==
    /\ IdleBatch
    /\ IdleTracker
    /\ IdleSched
    /\ IdleDevice
    /\ IdleConns
    /\ IdleCalls

\* the configuration is set, cleared and used to generate results
NextMultiSpindle ==
    \/ \E spindle_count \in 0..MaxSpindleCount, sync_id \in 1..MaxSyncId :
          EnableMultiSpindle(spindle_count, sync_id)
    \/ DisableMultiSpindle
    \/ \E result_id \in 1..MaxResultId : GenerateMultiSpindleResults(result_id)

SpecMultiSpindle == InitMultiSpindle /\ [][NextMultiSpindle]_vars

CreateNames == {"Custom", "Standard"}

InitRepo ==
    /\ IdleBatch
    /\ IdleTracker
    /\ IdleSched
    /\ IdleDevice
    /\ IdleConns
    /\ repository \in {InMemoryPsetRepository_new, SqlitePsetRepository_new}
    /\ call = [op |-> "new"]
    /\ http = IdleHttp
    /\ locks = IdleLocks

\* either implementation, with PSETs created and deleted in any order
NextRepo ==
    \/ \E name \in CreateNames : RepoCreate(name)
    \/ \E id \in 1..(Len(InMemoryPsetRepository_default_psets) + MaxCreated + 1) :
          RepoDelete(id)

SpecRepo == InitRepo /\ [][NextRepo]_vars

InitPsetHttp ==
    /\ IdleBatch
    /\ IdleTracker
    /\ IdleSched
    /\ IdleDevice
    /\ IdleConns
    /\ repository \in {InMemoryPsetRepository_new, SqlitePsetRepository_new}
    /\ call = [op |-> "new"]
    /\ http = IdleHttp
    /\ locks = IdleLocks

\* the ids in the requests: the first seeded PSET and the first created one
HttpPsetIds == {1, Len(InMemoryPsetRepository_default_psets) + 1}

\* one POST /psets/{id}/select and one DELETE /psets/{id} at a time, on
\* worker threads of their own, with PSETs created in between
NextPsetHttp ==
    \/ RepoCreate("Custom")
    \/ \E id \in HttpPsetIds : SelectCheck(id)
    \/ SelectSet
    \/ SelectPublish
    \/ \E id \in HttpPsetIds : DeleteCheck(id)
    \/ DeleteApply

SpecPsetHttp == InitPsetHttp /\ [][NextPsetHttp]_vars

ResponseMids == {1, 61, 9999, 10000, 65535}
ResponseRevisions == {0, 1, 255}
ResponseBytes == {"A", "7"}
ResponseBodies ==
    UNION {[1..n -> ResponseBytes] : n \in 0..MaxBody}

InitCodec ==
    /\ IdleBatch
    /\ IdleTracker
    /\ IdleSched
    /\ IdleDevice
    /\ IdleConns
    /\ IdleCalls

\* responses over the whole range of the MID and revision types
NextCodec ==
    \E mid \in ResponseMids, revision \in ResponseRevisions,
       data \in ResponseBodies :
          SerializeResponse([mid |-> mid, revision |-> revision, data |-> data])

SpecCodec == InitCodec /\ [][NextCodec]_vars

\* ----------------------------------------------------------------- claims

\* C1: at most one auto-tightening scheduler loop is active at any time: under
\* every interleaving of start and stop requests no two loop tasks are inside
\* a tightening cycle together.
C1_AtMostOneLoop == Cardinality({l \in Loops : LoopInCycle(l)}) <= 1

\* C2: in every reachable BatchManager state counter <= target_size.
C2_CounterWithinTarget == bm.counter <= bm.target_size

\* C3: in every reachable BatchManager state, the one right after new(size),
\* reset() and set_target_size(n) included, completed holds exactly when
\* counter >= target_size.
C3_CompletedIffReached == bm.completed <=> (bm.counter >= bm.target_size)

\* C4: tightening_sequence grows by exactly one on every add_tightening, the
\* returned tightening_id is the new sequence value, and enable_batch,
\* reset_batch and increment_batch leave the sequence unchanged.
C4_SequenceStep ==
    [][ /\ trOp'.op = "add_tightening" =>
             /\ tracker'.tightening_sequence = tracker.tightening_sequence + 1
             /\ trOp'.info.tightening_id = tracker'.tightening_sequence
        /\ trOp'.op \in {"enable_batch", "reset_batch", "increment_batch"} =>
             tracker'.tightening_sequence = tracker.tightening_sequence
      ]_vars

C4_Witness ==
    /\ tracker.mode = "Batch"
    /\ trOp.op = "add_tightening"
    /\ ~trOp.arg
    /\ tracker.tightening_sequence >= 3

\* C5: on one connection the inbound frames are read in arrival order, a frame
\* is read only when no frame of an earlier request is waiting to be sent, a
\* response is sent for the request read last (and written unchanged when
\* nothing is injected and the socket accepts it), and after the answer to
\* MID 0051 the MID 0052 of the same request is sent before anything is read.
C5_InOrder ==
    [][ \A c \in Conns :
          LET k == conns[c]
              k2 == conns'[c]
          IN /\ k2.nread # k.nread =>
                   /\ k.pc = "select"
                   /\ k.out = NoOut
                   /\ k2.nread = k.nread + 1
                   /\ inbox[c] # <<>>
                   /\ inbox'[c] = Tail(inbox[c])
             /\ (k.pc \in {"respond", "vin"} /\ k2.pc # k.pc) =>
                   /\ lastSend'[c].out = k.out
                   /\ k.out.req = k.nread
                   /\ k2.nread = k.nread
                   /\ (~state.failure_config.enabled /\ lastSend'[c].io_ok) =>
                         lastSend'[c].written = "original"
             /\ (k.pc = "respond" /\ k.req_mid = 51 /\ k2.pc # k.pc
                 /\ lastSend'[c].ret # "Err") =>
                   /\ k2.pc = "vin"
                   /\ k2.out = [mid |-> 52, req |-> k.nread, ev |-> 0,
                              data |-> VehicleIdBroadcast_serialize(<<>>)]
      ]_vars

C5_Witness ==
    /\ conns[1].nread = 2
    /\ conns[1].pc = "select"
    /\ lastSend[1].called
    /\ lastSend[1].out = [mid |-> 52, req |-> 2, ev |-> 0,
                        data |-> VehicleIdBroadcast_serialize(<<>>)]
    /\ lastSend[1].written = "original"

\* C6: an event taken from the receiver becomes a frame exactly when the
\* session is subscribed to its kind at that moment, with the MID of that
\* kind; a frame for an event is sent only while the session is still
\* subscribed, and unchanged when nothing is injected; ToolStateChanged,
\* BatchCompleted and AutoTighteningProgress never become a frame.
C6_ForwardIffSubscribed ==
    [][ \A c \in Conns :
          LET k == conns[c]
              k2 == conns'[c]
              kindOf(t) == CASE t = "TighteningCompleted" -> "tightening_result"
                             [] t = "PsetChanged" -> "pset_selection"
                             [] t = "VehicleIdChanged" -> "vehicle_id"
                             [] t = "MultiSpindleStatusCompleted" ->
                                    "multi_spindle_status"
                             [] t = "MultiSpindleResultCompleted" ->
                                    "multi_spindle_result"
                             [] OTHER -> "none"
              midOf(t) == CASE t = "TighteningCompleted" -> 61
                            [] t = "PsetChanged" -> 15
                            [] t = "VehicleIdChanged" -> 52
                            [] t = "MultiSpindleStatusCompleted" -> 91
                            [] t = "MultiSpindleResultCompleted" -> 101
                            [] OTHER -> 0
          IN /\ k2.ntaken = k.ntaken + 1 =>
                   LET t == events[k.cursor].type
                   IN IF kindOf(t) # "none" /\ k.subs[kindOf(t)]
                      THEN /\ k2.pc = "forward"
                           /\ k2.out = [mid |-> midOf(t), req |-> 0,
                                        ev |-> k.cursor, data |-> <<>>]
                      ELSE /\ k2.pc = "select"
                           /\ k2.out = NoOut
             /\ (k.pc = "forward" /\ k2.pc # "forward") =>
                   LET t == events[k.out.ev].type
                   IN /\ kindOf(t) # "none"
                      /\ k.subs[kindOf(t)]
                      /\ lastSend'[c].out = k.out
                      /\ k.out.mid = midOf(t)
                      /\ (~state.failure_config.enabled /\ lastSend'[c].io_ok) =>
                            lastSend'[c].written = "original"
      ]_vars

C6_Witness ==
    /\ conns[1].nread = 1
    /\ conns[1].req_mid = 100
    /\ conns[1].subs["multi_spindle_result"]
    /\ conns[1].joined = 0
    /\ conns[1].ntaken = 2
    /\ conns[1].pc = "select"
    /\ events[1].type = "BatchCompleted"
    /\ events[2].type = "MultiSpindleResultCompleted"
    /\ lastSend[1].called
    /\ lastSend[1].out = [mid |-> 101, req |-> 0, ev |-> 2, data |-> <<>>]
    /\ lastSend[1].written = "original"

\* C7: handling a MID 0018 request publishes PsetChanged with the selected id,
\* and handling a MID 0050 request publishes VehicleIdChanged with the VIN,
\* after the state change.
C7_SelectionPublishes ==
    [][ \A c \in Conns :
          (/\ conns'[c].nread = conns[c].nread + 1
           /\ parse_message(Head(inbox[c])) # <<>>
           /\ Head(inbox[c]).mid \in {18, 50}) =>
             /\ Len(events') = Len(events) + 1
             /\ events'[Len(events')] =
                   IF Head(inbox[c]).mid = 18
                   THEN EvPsetChanged(state'.current_pset_id[1])
                   ELSE EvVehicleIdChanged(state'.vehicle_id[1])
      ]_vars

\* C8: a connection task that has seen the end of its inbound stream has left
\* its loop, whether or not an event or a send error follows.
C8_EndOfStreamTerminates ==
    \A c \in Conns : conns[c].eof_seen => conns[c].pc = "done"

\* C9: with injection enabled a decided disconnect writes nothing and ends the
\* task whatever else was decided; else a decided drop writes nothing and the
\* task goes on; else the delay is slept and one frame, original or corrupted
\* as decided, is written. With injection disabled the frame is written
\* unmodified and only a socket error ends the task.
C9_Precedence ==
    [][ \A c \in Conns :
          (conns[c].pc \in {"respond", "vin", "forward"}
           /\ conns'[c].pc # conns[c].pc) =>
             LET s == lastSend'[c]
                 d == s.decisions
                 sent == /\ s.written = (IF ~s.io_ok THEN "none"
                                         ELSE IF s.config.enabled /\ d.corrupt
                                         THEN "corrupted" ELSE "original")
                         /\ s.ret = (IF s.io_ok THEN "Ok(true)" ELSE "Err")
                         /\ (conns'[c].pc = "done") <=> ~s.io_ok
             IN /\ s.config = state.failure_config
                /\ s.out = conns[c].out
                /\ IF ~s.config.enabled
                   THEN sent /\ s.slept = 0
                   ELSE IF d.disconnect
                   THEN /\ s.written = "none"
                        /\ s.slept = 0
                        /\ s.ret = "Err"
                        /\ conns'[c].pc = "done"
                   ELSE IF d.drop
                   THEN /\ s.written = "none"
                        /\ s.slept = 0
                        /\ s.ret = "Ok(false)"
                        /\ conns'[c].pc # "done"
                   ELSE sent /\ s.slept = d.delay
      ]_vars

C9_Witness ==
    /\ lastSend[1].called
    /\ lastSend[1].config.enabled
    /\ lastSend[1].decisions.disconnect
    /\ lastSend[1].decisions.drop
    /\ lastSend[1].decisions.corrupt
    /\ lastSend[1].decisions.delay > 0
    /\ lastSend[1].out.mid = 61
    /\ conns[1].pc = "done"

\* C10: with injection enabled and force_disconnect_rate = 1.0 a frame handed
\* to the sender ends that connection without a byte written, and every other
\* connection that was connected when the event behind the frame was
\* published has skipped nothing: it has taken that event or still holds it,
\* in publication order.
C10_DisconnectKeepsEvent ==
    \A c \in Conns :
       (/\ lastSend[c].called
        /\ lastSend[c].config.enabled
        /\ lastSend[c].config.force_disconnect_rate = 100) =>
          /\ lastSend[c].ret = "Err"
          /\ lastSend[c].written = "none"
          /\ conns[c].pc = "done"
          /\ \A k \in Conns \ {c} :
                (/\ lastSend[c].out.ev # 0
                 /\ conns[k].pc # "none"
                 /\ conns[k].joined < lastSend[c].out.ev) =>
                   /\ conns[k].cursor = conns[k].joined + conns[k].ntaken + 1
                   /\ conns[k].cursor <= lastSend[c].out.ev =>
                         /\ Len(Receiver_pending(k)) = Len(events) - conns[k].cursor + 1
                         /\ Receiver_pending(k)[lastSend[c].out.ev - conns[k].cursor + 1]
                               = events[lastSend[c].out.ev]

C10_Witness ==
    /\ lastSend[1].called
    /\ lastSend[1].by = "injector"
    /\ lastSend[1].config.force_disconnect_rate = 100
    /\ lastSend[1].out.ev = 2
    /\ conns[1].pc = "done"
    /\ conns[2].joined = 0
    /\ lastSend[2].called
    /\ lastSend[2].out.ev = 2
    /\ lastSend[2].written = "original"

\* the task of connection c takes a frame from its stream in this step
ReadStep(c) == conns[c].pc = "select" /\ conns'[c].nread = conns[c].nread + 1

\* the task of connection c finishes a send in this step
SendStep(c) ==
    conns[c].pc \in {"respond", "vin", "forward"} /\ conns'[c].pc # conns[c].pc

\* C11: a request whose MID has no registered handler is answered on the same
\* connection by MID 0004 carrying the failed MID and the error code 99: the
\* read changes neither the device state nor the events nor the session, the
\* frame handed to the send is exactly that MID 0004, and unless the send
\* itself fails the task is back at its select! for the next request.
C11_UnknownMidAnswered ==
    [][\A c \in Conns :
          /\ (ReadStep(c) /\ parse_message(Head(inbox[c])) # <<>>
                 /\ Head(inbox[c]).mid \notin RegisteredMids) =>
                /\ conns'[c].pc = "respond"
                /\ conns'[c].out = [mid |-> 4, req |-> conns'[c].nread, ev |-> 0,
                                    data |-> <<Head(inbox[c]).mid, 99>>]
                /\ conns'[c].subs = conns[c].subs
                /\ state' = state
                /\ events' = events
          /\ (SendStep(c) /\ conns[c].pc = "respond" /\ conns[c].out.mid = 4) =>
                /\ lastSend'[c].out = conns[c].out
                /\ lastSend'[c].ret # "Err" => conns'[c].pc = "select"
                /\ state' = state
    ]_vars

\* the unregistered MID 7 was answered by MID 0004 (7, 99) and the task has
\* gone on to read the next request
C11_Witness ==
    /\ lastSend[1].called
    /\ lastSend[1].out = [mid |-> 4, req |-> 1, ev |-> 0, data |-> <<7, 99>>]
    /\ lastSend[1].written = "original"
    /\ conns[1].nread = 2
    /\ conns[1].pc = "respond"

\* C12: an inbound frame that is too short, has a non-numeric length, MID or
\* revision, or declares a length other than its own is discarded: reading it
\* only consumes it; no frame is queued or sent, the session's subscriptions,
\* the device state and the events are unchanged, and the task stays at its
\* select! for the next frame.
C12_MalformedDiscarded ==
    [][\A c \in Conns :
          LET raw == Head(inbox[c])
              malformed == \/ raw.size < 20
                           \/ raw.length = NotANumber
                           \/ raw.mid = NotANumber
                           \/ raw.revision = NotANumber
                           \/ raw.length # raw.size
          IN (ReadStep(c) /\ malformed) =>
                /\ conns'[c] = [conns[c] EXCEPT !.nread = @ + 1]
                /\ conns'[c].pc = "select"
                /\ conns'[c].out = NoOut
                /\ lastSend' = lastSend
                /\ state' = state
                /\ events' = events
    ]_vars

\* the first frame was discarded without any send and the second frame, a
\* MID 0051 request, is being answered
C12_Witness ==
    /\ ~lastSend[1].called
    /\ conns[1].nread = 2
    /\ conns[1].pc = "respond"
    /\ conns[1].out.req = 2
    /\ conns[1].req_mid = 51
    /\ conns[1].subs.vehicle_id

\* C13: a MID 0020 request in batch mode resets counter, completed and
\* has_nok, keeps target_size and is answered by MID 0005; in single mode it
\* leaves the device state unchanged and is answered by MID 0004 with failed
\* MID 20 and error code 04.
C13_BatchReset ==
    [][\A c \in Conns :
          (ReadStep(c) /\ parse_message(Head(inbox[c])) # <<>>
             /\ Head(inbox[c]).mid = 20) =>
             LET t == state.tightening_tracker
             IN IF t.mode = "Batch"
                THEN /\ state' = [state EXCEPT !.tightening_tracker.batch =
                                     [counter |-> 0,
                                      target_size |-> t.batch.target_size,
                                      completed |-> FALSE, has_nok |-> FALSE]]
                     /\ conns'[c].out.mid = 5
                ELSE /\ state' = state
                     /\ conns'[c].out.mid = 4
                     /\ conns'[c].out.data = <<20, 4>>
    ]_vars

\* C14: a MID 0128 request adds one to the batch counter whatever the
\* tightening results were, marks the batch completed when the target is
\* reached, does nothing to the tracker in single mode, publishes
\* AutoTighteningProgress with the new counter and is answered by MID 0005.
C14_BatchIncrement ==
    [][\A c \in Conns :
          (ReadStep(c) /\ parse_message(Head(inbox[c])) # <<>>
             /\ Head(inbox[c]).mid = 128) =>
             LET t == state.tightening_tracker
                 n == IF t.mode = "Batch" THEN t.batch.counter + 1 ELSE 0
             IN /\ IF t.mode = "Batch"
                   THEN state' =
                          [state EXCEPT !.tightening_tracker.batch =
                              [t.batch EXCEPT !.counter = n,
                                 !.completed = (@ \/ n >= t.batch.target_size)]]
                   ELSE state' = state
                /\ Len(events') = Len(events) + 1
                /\ events'[Len(events')].type = "AutoTighteningProgress"
                /\ events'[Len(events')].counter = n
                /\ conns'[c].out.mid = 5
    ]_vars

\* C15: for a MID 0051 request the session is subscribed to vehicle id
\* events and the MID 0005 ack is queued; when the send of the ack returns
\* without error the next frame of the connection is MID 0052 for the same
\* request, a VIN field of 25 characters, and no event is taken in between;
\* the send before the MID 0052 on this connection is that ack.
C15_VinAfterAck ==
    [][\A c \in Conns :
          LET k == conns[c]
              k2 == conns'[c]
          IN /\ (ReadStep(c) /\ parse_message(Head(inbox[c])) # <<>>
                   /\ Head(inbox[c]).mid = 51) =>
                   /\ k2.subs.vehicle_id
                   /\ k2.pc = "respond"
                   /\ k2.out.mid = 5
                   /\ k2.out.req = k2.nread
             /\ (SendStep(c) /\ k.pc = "respond" /\ k.req_mid = 51) =>
                   /\ lastSend'[c].out = k.out
                   /\ k.out.mid = 5
                   /\ lastSend'[c].ret # "Err" =>
                         /\ k2.pc = "vin"
                         /\ k2.out.mid = 52
                         /\ k2.out.req = k.out.req
                         /\ k2.ntaken = k.ntaken
                         /\ k2.nread = k.nread
             /\ (SendStep(c) /\ k.pc = "vin") =>
                   /\ lastSend[c].called
                   /\ lastSend[c].out.mid = 5
                   /\ lastSend[c].out.req = k.out.req
                   /\ lastSend'[c].out = k.out
                   /\ k.out.mid = 52
                   /\ Len(k.out.data) = 25
                   /\ \A i \in 1..25 : k.out.data[i] = " "
    ]_vars

\* the ack of a MID 0051 request and then the MID 0052 frame with its 25
\* characters have been written and the session is subscribed
C15_Witness ==
    /\ lastSend[1].called
    /\ lastSend[1].out.mid = 52
    /\ lastSend[1].out.req = 1
    /\ Len(lastSend[1].out.data) = 25
    /\ lastSend[1].written = "original"
    /\ conns[1].subs.vehicle_id
    /\ conns[1].pc = "select"

\* C16: while the tool is disabled no tightening is performed: a step taken
\* with tool_enabled false applies no add_tightening to the tracker and
\* publishes neither TighteningCompleted nor MultiSpindleResultCompleted,
\* whether the step belongs to a scheduler cycle or to POST
\* /simulate/tightening.
C16_NoTighteningWhileDisabled ==
    [][~state.tool_enabled =>
          /\ state'.tightening_tracker.tightening_sequence
                = state.tightening_tracker.tightening_sequence
          /\ Len(events') > Len(events) =>
                events'[Len(events')].type
                   \notin {"TighteningCompleted", "MultiSpindleResultCompleted"}
    ]_vars

C18_StoppedLoopExits ==
    [][\A l \in stopper.stopped :
          (loops[l].pc = "while" /\ loops'[l].pc # "while") =>
             loops'[l].pc = "exit"
    ]_vars

\* C19: the scheduler never records a tightening in a batch that is already
\* complete: whenever a scheduler task applies add_tightening in batch mode,
\* the tracker is not complete and counter < target_size at that moment.
C19_AddOnlyToOpenBatch ==
    [][\A l \in Loops :
          (/\ loops[l].pc \in {"ms_add", "ss_add"}
           /\ loops'[l].pc \notin {"ms_add", "ss_add"}
           /\ state.tightening_tracker.mode = "Batch") =>
             /\ ~TR_is_complete(state.tightening_tracker)
             /\ state.tightening_tracker.batch.counter
                   < state.tightening_tracker.batch.target_size
    ]_vars

\* C20: in a scheduler cycle with multi-spindle enabled the observable effects
\* occur in the order Tightening snapshot, Running status, MultiSpindleResult,
\* Completed status, Evaluating snapshot, AutoTighteningProgress, Idle
\* snapshot: the three multi-spindle events are published while the snapshot
\* is Tightening, one after the other, the progress event while it is
\* Evaluating, and the snapshot returns to Idle after the progress event.
C20_CycleOrder ==
    [][LET label(e) == IF e.type = "MultiSpindleStatusCompleted" THEN e.status
                       ELSE e.type
           last == IF events = <<>> THEN "none" ELSE label(events[Len(events)])
           pub(x) == /\ Len(events') = Len(events) + 1
                     /\ label(events'[Len(events')]) = x
           fsm == state.device_fsm_state
       IN /\ pub("Running") => fsm = "Tightening"
          /\ pub("MultiSpindleResultCompleted") =>
                fsm = "Tightening" /\ last = "Running"
          /\ pub("Completed") =>
                fsm = "Tightening" /\ last = "MultiSpindleResultCompleted"
          /\ (fsm # "Evaluating" /\ state'.device_fsm_state = "Evaluating"
                /\ last # "none") => last = "Completed"
          /\ (pub("AutoTighteningProgress") /\ last = "Completed") =>
                fsm = "Evaluating"
          /\ (fsm # "Idle" /\ state'.device_fsm_state = "Idle") =>
                last \in {"AutoTighteningProgress", "BatchCompleted"}
    ]_vars

\* C20 as amended: the order is Tightening snapshot, Evaluating snapshot,
\* Running status, MultiSpindleResult, Completed status,
\* AutoTighteningProgress, Idle snapshot: the snapshot goes from Idle to
\* Tightening to Evaluating before anything is published, every event of the
\* cycle is published while it is Evaluating, Running is followed by the
\* result, the result by Completed, Completed by the progress event, and the
\* snapshot returns to Idle after the progress event (or the BatchCompleted
\* that follows it).
C20_CycleOrderAmended ==
    [][LET label(e) == IF e.type = "MultiSpindleStatusCompleted" THEN e.status
                       ELSE e.type
           last == IF events = <<>> THEN "none" ELSE label(events[Len(events)])
           published == Len(events') = Len(events) + 1
           new == label(events'[Len(events')])
           fsm == state.device_fsm_state
           fsm2 == state'.device_fsm_state
       IN /\ fsm2 # fsm =>
                /\ <<fsm, fsm2>> \in {<<"Idle", "Tightening">>,
                                      <<"Tightening", "Evaluating">>,
                                      <<"Evaluating", "Idle">>}
                /\ events' = events
          /\ published =>
                /\ fsm = "Evaluating"
                /\ new = "Running" =>
                      last \in {"none", "AutoTighteningProgress", "BatchCompleted"}
                /\ last = "Running" => new = "MultiSpindleResultCompleted"
                /\ new = "MultiSpindleResultCompleted" => last = "Running"
                /\ last = "MultiSpindleResultCompleted" => new = "Completed"
                /\ new = "Completed" => last = "MultiSpindleResultCompleted"
                /\ last = "Completed" => new = "AutoTighteningProgress"
                /\ new = "AutoTighteningProgress" =>
                      last \in {"Completed", "TighteningCompleted"}
          /\ (fsm = "Evaluating" /\ fsm2 = "Idle") =>
                last \in {"AutoTighteningProgress", "BatchCompleted"}
    ]_vars

\* a whole multi-spindle cycle has run: Running, the result, Completed and
\* the progress event are in the log and the snapshot is Idle again
C20_Witness ==
    /\ Len(events) = 4
    /\ events[1] = EvMultiSpindleStatusCompleted("Running")
    /\ events[2].type = "MultiSpindleResultCompleted"
    /\ events[3] = EvMultiSpindleStatusCompleted("Completed")
    /\ events[4].type = "AutoTighteningProgress"
    /\ state.device_fsm_state = "Idle"
    /\ state.tightening_tracker.tightening_sequence = 1
    /\ loops[1].pc = "sleep"

\* C21: in batch mode with target N, as long as every tightening injected
\* over POST /simulate/tightening was OK, the k-th request (k <= N) returns
\* batch_counter k, its result carries NotFinished before the N-th and
\* CompletedOk on the N-th, and BatchCompleted is in the log only after the
\* N-th request, exactly once and with total = N.
C21_BatchOfN ==
    LET b == state.tightening_tracker.batch
        N == b.target_size
        done == {i \in 1..Len(events) : events[i].type = "BatchCompleted"}
    IN (state.tightening_tracker.mode = "Batch" /\ ~b.has_nok /\ sim.n <= N) =>
          /\ b.counter = sim.n
          /\ sim.n > 0 =>
                /\ sim.counter = sim.n
                /\ sim.batch_status =
                      (IF sim.n = N THEN "CompletedOk" ELSE "NotFinished")
          /\ Cardinality(done) = (IF sim.n = N /\ sim.pc = "idle" THEN 1 ELSE 0)
          /\ \A i \in done : events[i].total = N

\* three OK tightenings in a batch of three: the third returned counter 3
\* with CompletedOk and BatchCompleted(3) closes the log
C21_Witness ==
    /\ state.tightening_tracker.batch.target_size = 3
    /\ ~state.tightening_tracker.batch.has_nok
    /\ sim = [pc |-> "idle", n |-> 3, ok |-> TRUE, tightening_id |-> 3,
              counter |-> 3, batch_status |-> "CompletedOk",
              batch_completed |-> TRUE]
    /\ Len(events) = 4
    /\ events[3].batch_counter = 3
    /\ events[4] = EvBatchCompleted(3)

\* C22: a tracker put in batch mode with target 2 and given OK, NOK, OK, OK
\* returns the counters 1, 1, 2, 2 and the ids 1, 2, 3, 4; the last result
\* has status CompletedNok and the batch status encodes as 0.  Each step of
\* the run is recognised by the tracker it starts from.
C22_OkNokOkOk ==
    [][ LET input == <<TRUE, FALSE, TRUE, TRUE>>
            counter == <<1, 1, 2, 2>>
            t0 == TR_enable_batch(TR_new, 2)
            t1 == TR_add_tightening(t0, input[1]).tracker
            t2 == TR_add_tightening(t1, input[2]).tracker
            t3 == TR_add_tightening(t2, input[3]).tracker
            before == <<t0, t1, t2, t3>>
        IN \A k \in 1..4 :
              ( /\ tracker = before[k]
                /\ trOp'.op = "add_tightening"
                /\ trOp'.arg = input[k]
                /\ tracker'.tightening_sequence = k ) =>
                 /\ trOp'.info.counter = counter[k]
                 /\ trOp'.info.tightening_id = k
                 /\ k = 4 =>
                       /\ trOp'.info.batch_status = "CompletedNok"
                       /\ BM_get_batch_status_value(tracker'.batch) = 0
      ]_vars

\* C23: add_tightening(false) leaves counter alone and sets has_nok,
\* add_tightening(true) adds one to counter; after the call the batch is
\* completed exactly when counter has reached target_size, and the returned
\* status is CompletedNok when a NOK was added since the last reset (new,
\* reset, set_target_size), CompletedOk when none was, NotFinished while the
\* batch is open.  The wire value is 2 exactly while the batch is not
\* completed, 0 for a completed batch with a NOK and 1 for one without.
C23_AddAndStatus ==
    [][ /\ bmOp'.op = "add_tightening" =>
             /\ bm'.counter = bm.counter + (IF bmOp'.arg THEN 1 ELSE 0)
             /\ bm'.has_nok = (bm.has_nok \/ ~bmOp'.arg)
             /\ bm'.completed = (bm'.counter >= bm'.target_size)
             /\ bmOp'.info.counter = bm'.counter
             /\ bmOp'.info.batch_status =
                   (IF ~bm'.completed THEN "NotFinished"
                    ELSE IF bm'.has_nok THEN "CompletedNok" ELSE "CompletedOk")
        /\ bmOp'.op \in {"new", "reset", "set_target_size"} => ~bm'.has_nok
        /\ bmOp'.op = "increment" => bm'.has_nok = bm.has_nok
        /\ BM_get_batch_status_value(bm') = 2 <=> ~bm'.completed
        /\ BM_get_batch_status_value(bm') = 0 <=> (bm'.completed /\ bm'.has_nok)
        /\ BM_get_batch_status_value(bm') = 1 <=> (bm'.completed /\ ~bm'.has_nok)
      ]_vars

\* a batch of two completed by its second OK after a NOK, and still open
\* with the NOK recorded right before
C23_Witness ==
    /\ bm = [counter |-> 2, target_size |-> 2, completed |-> TRUE,
             has_nok |-> TRUE]
    /\ bmOp = [op |-> "add_tightening", arg |-> TRUE,
               info |-> [counter |-> 2, tightening_id |-> 0,
                         batch_status |-> "CompletedNok"]]
    /\ BM_get_batch_status_value(bm) = 0

\* C24: a completed BatchManager stays completed over add_tightening (OK or
\* NOK) and over increment; completed goes from true to false only in
\* reset(), in set_target_size, or when a fresh manager is installed
\* (BatchManager::new, which is what enable_batch does).
C24_CompletedSticks ==
    [][ /\ (bm.completed /\ bmOp'.op \in {"add_tightening", "increment"}) =>
              bm'.completed
        /\ (bm.completed /\ ~bm'.completed) =>
              bmOp'.op \in {"reset", "set_target_size", "new"}
      ]_vars

\* a NOK was added to a batch of two that was already completed and past
\* its target; it is still completed
C24_Witness ==
    /\ bm = [counter |-> 3, target_size |-> 2, completed |-> TRUE,
             has_nok |-> TRUE]
    /\ bmOp.op = "add_tightening"
    /\ ~bmOp.arg

\* C25: as long as the tracker is in Single mode, counter() and batch_size()
\* are 0, remaining_work() is None, is_complete() and
\* should_wait_for_config() are false, before and after every operation;
\* add_tightening returns counter 0 and NotUsed, increment_batch returns 0
\* and reset_batch returns false, both leaving the tracker as it was.
C25_SingleMode ==
    [][ tracker.mode = "Single" =>
          /\ \A t \in {tracker} \cup {u \in {tracker'} : u.mode = "Single"} :
                /\ TR_counter(t) = 0
                /\ TR_batch_size(t) = 0
                /\ TR_remaining_work(t) = <<>>
                /\ ~TR_is_complete(t)
                /\ ~TR_should_wait_for_config(t)
          /\ trOp'.op = "add_tightening" =>
                /\ tracker'.mode = "Single"
                /\ trOp'.info.counter = 0
                /\ trOp'.info.batch_status = "NotUsed"
          /\ trOp'.op = "increment_batch" =>
                /\ trOp'.ret = 0
                /\ tracker' = tracker
          /\ trOp'.op = "reset_batch" =>
                /\ trOp'.ret = FALSE
                /\ tracker' = tracker
      ]_vars

\* two tightenings in Single mode, then a batch increment that returned 0
C25_Witness ==
    /\ tracker = [TR_new EXCEPT !.tightening_sequence = 2]
    /\ trOp = [op |-> "increment_batch", ret |-> 0]

\* C26: enable_batch(size), whatever the tracker was before (single mode, a
\* batch in progress, a completed batch, a batch with a NOK), leaves it in
\* batch mode with target_size = size, counter 0, not completed and without
\* a NOK.
C26_EnableBatchResets ==
    [][ trOp'.op = "enable_batch" =>
          /\ tracker'.mode = "Batch"
          /\ tracker'.batch = [counter |-> 0, target_size |-> trOp'.arg,
                               completed |-> FALSE, has_nok |-> FALSE]
          /\ TR_batch_size(tracker') = trOp'.arg
          /\ TR_counter(tracker') = 0
          /\ ~TR_is_complete(tracker')
      ]_vars

\* a batch of two installed after three tightenings had been recorded
C26_Witness ==
    /\ trOp = [op |-> "enable_batch", arg |-> 2]
    /\ tracker = [mode |-> "Batch", batch |-> BM_new(2),
                  tightening_sequence |-> 3]

\* C27: whatever a session's subscription set is, a subscribe request for a
\* kind followed by the unsubscribe request for that kind returns the set to
\* the value it had before the subscribe.  Checked at every subscribe
\* request the session reads: the set after it, with the unsubscribe of the
\* same kind applied, is the set before it.
C27_SubscribeUnsubscribe ==
    [][ \A k \in SubKinds :
          LET sub == CASE k = "tightening_result" -> 60
                       [] k = "pset_selection" -> 14
                       [] k = "vehicle_id" -> 51
                       [] k = "multi_spindle_status" -> 90
                       [] k = "multi_spindle_result" -> 100
              unsub == CASE k = "tightening_result" -> 63
                         [] k = "pset_selection" -> 17
                         [] k = "vehicle_id" -> 54
                         [] k = "multi_spindle_status" -> 92
                         [] k = "multi_spindle_result" -> 103
          IN (ReadStep(1) /\ Head(inbox[1]).mid = sub) =>
                Session_track(conns'[1].subs, unsub) = conns[1].subs
      ]_vars

\* C27 as the code has it: subscribe followed by unsubscribe of a kind
\* returns the set to its prior value when the kind was not subscribed
\* before; when it was, the result is the prior set without that kind.  The
\* other kinds are untouched in both cases.
C27_SubscribeUnsubscribeAmended ==
    [][ \A k \in SubKinds :
          LET sub == CASE k = "tightening_result" -> 60
                       [] k = "pset_selection" -> 14
                       [] k = "vehicle_id" -> 51
                       [] k = "multi_spindle_status" -> 90
                       [] k = "multi_spindle_result" -> 100
              unsub == CASE k = "tightening_result" -> 63
                         [] k = "pset_selection" -> 17
                         [] k = "vehicle_id" -> 54
                         [] k = "multi_spindle_status" -> 92
                         [] k = "multi_spindle_result" -> 103
              after == Session_track(conns'[1].subs, unsub)
          IN (ReadStep(1) /\ Head(inbox[1]).mid = sub) =>
                /\ conns'[1].subs[k]
                /\ ~conns[1].subs[k] => after = conns[1].subs
                /\ conns[1].subs[k] => after = [conns[1].subs EXCEPT ![k] = FALSE]
      ]_vars

\* a session with no subscription subscribed to tightening results, had a
\* result forwarded as MID 0061, and has now read the unsubscribe request:
\* its set is empty again
C27_Witness ==
    /\ conns[1].nread = 2
    /\ conns[1].req_mid = 63
    /\ conns[1].pc = "respond"
    /\ conns[1].subs = Subscriptions_new
    /\ lastSend[1].called
    /\ lastSend[1].out.mid = 61

\* C28: enable_multi_spindle(n, sync_id) fails for every n below 2 and every
\* n above 16 and then leaves multi_spindle_config (and the rest of the
\* device state) as it was, whether multi-spindle was enabled or not; for
\* 2 <= n <= 16 it succeeds and installs the enabled configuration.
C28_EnableMultiSpindleRange ==
    [][ call'.op = "enable_multi_spindle" =>
          LET n == call'.spindle_count
          IN /\ (n < 2 \/ n > 16) =>
                   /\ ~call'.ok
                   /\ state'.multi_spindle_config = state.multi_spindle_config
                   /\ state' = state
             /\ (2 <= n /\ n <= 16) =>
                   /\ call'.ok
                   /\ state'.multi_spindle_config =
                         [enabled |-> TRUE, spindle_count |-> n,
                          sync_id |-> call'.sync_id]
      ]_vars

\* multi-spindle is enabled with 3 spindles and sync id 1, and a call with 17
\* spindles and sync id 2 has just failed
C28_Witness ==
    /\ call = [op |-> "enable_multi_spindle", spindle_count |-> 17,
               sync_id |-> 2, ok |-> FALSE]
    /\ state.multi_spindle_config = MultiSpindleConfig_new(3, 1)

\* C29: generate_multi_spindle_results returns spindle_count results with
\* the spindle ids 1..spindle_count in order; the last spindle is NOK with
\* torque_status 1 and angle_status 0 exactly when result_id is a multiple of
\* 10, every other spindle is OK, and overall_status is 0 exactly when every
\* spindle has torque_status 0 and angle_status 0.
C29_GeneratedResults ==
    call.op = "generate_multi_spindle_results" =>
       LET n == call.config.spindle_count
           r == call.ret.spindle_results
           nok(x) == x.torque_status = 1 /\ x.angle_status = 0
           ok(x) == x.torque_status = 0 /\ x.angle_status = 0
       IN /\ Len(r) = n
          /\ call.ret.spindle_count = n
          /\ \A i \in 1..n : r[i].spindle_id = i
          /\ nok(r[n]) <=> (call.result_id % 10 = 0)
          /\ ok(r[n]) <=> (call.result_id % 10 # 0)
          /\ \A i \in 1..(n - 1) : ok(r[i])
          /\ (call.ret.overall_status = 0) <=> (\A i \in 1..n : ok(r[i]))
          /\ call.ret.overall_status \in {0, 1}

\* three spindles, result id 10: the third spindle failed on torque and the
\* overall status is NOK
C29_Witness ==
    /\ call.op = "generate_multi_spindle_results"
    /\ call.result_id = 10
    /\ call.config = MultiSpindleConfig_new(3, 1)
    /\ call.ret.overall_status = 1
    /\ call.ret.spindle_results[3] = SpindleResult_nok(3, 4600, 1820, TRUE, FALSE)
    /\ call.ret.spindle_results[1] = SpindleResult_ok(1, 5000, 1800)

\* C30: delete(id) on the PSET repository, in-memory or sqlite, fails and
\* leaves the repository unchanged when id names one of the seeded default
\* PSETs and when no PSET has that id.
C30_DeleteRefused ==
    [][ call'.op = "delete" =>
          LET named == {i \in 1..Len(repository.psets) :
                           repository.psets[i].id = call'.id}
          IN (named = {} \/ \E i \in named : repository.psets[i].is_default) =>
                /\ ~call'.ok
                /\ repository' = repository
      ]_vars

\* C31: after any interleaving of POST /psets/{id}/select and
\* DELETE /psets/{id}, a PSET that became current through the select
\* endpoint is in the repository for as long as it is current.
C31_CurrentPsetExists ==
    http.by_select =>
       PsetRepository_get_by_id(repository, state.current_pset_id[1]) # <<>>

MaxOverflow == 2

\* ObservableState::broadcast called while a connection task is not scheduled:
\* the channel fills beyond its capacity
BroadcastBurst(event) ==
    /\ Len(events) < ChannelCapacity + MaxOverflow
    /\ events' = Broadcaster_send(events, event)
    /\ UNCHANGED <<callVars, batchVars, trackerVars, state, schedVars, connVars>>

LagEvent == EvTighteningCompleted([tightening_id |-> 1, counter |-> 0], TRUE)

\* one connection that has subscribed to the tightening results (MID 0060)
\* and waits in its select!
InitLag ==
    /\ IdleBatch
    /\ IdleTracker
    /\ IdleSched
    /\ IdleDevice
    /\ IdleCalls
    /\ conns = [c \in Conns |->
          IF c = 1
          THEN [NewConn EXCEPT !.pc = "select", !.cursor = 1,
                               !.subs = Session_track(Subscriptions_new, 60)]
          ELSE NewConn]
    /\ inbox = [c \in Conns |-> <<>>]
    /\ peer = [c \in Conns |-> IF c = 1 THEN "open" ELSE "none"]
    /\ lastSend = [c \in Conns |-> NoSend]

NextLag ==
    \/ BroadcastBurst(LagEvent)
    \/ ConnRecv(1)
    \/ ConnSend(1)

SpecLag == InitLag /\ [][NextLag]_vars

\* C33: on each connection the forwarded events are events of the published
\* sequence, forwarded in publication order: every forwarded frame is the
\* frame of the published event at its position, that position is behind the
\* receiver's cursor, an event taken from the receiver is at or after the
\* cursor, the cursor never moves back, and a forwarded event comes later in
\* the published sequence than the event forwarded before it, also after the
\* receiver has overflowed.
C33_ForwardedInOrder ==
    [][ \A c \in Conns :
          /\ conns'[c].pc # "none" /\ conns[c].pc # "none" =>
                conns'[c].cursor >= conns[c].cursor
          /\ (conns[c].pc = "select" /\ conns'[c].pc = "forward") =>
                /\ conns'[c].out.ev \in 1..Len(events)
                /\ conns'[c].out.ev >= conns[c].cursor
                /\ conns'[c].out.ev < conns'[c].cursor
                /\ conns'[c].out.mid =
                      EventFrameMid(conns[c].subs, events[conns'[c].out.ev])
          /\ (conns[c].pc = "forward" /\ conns'[c].pc # "forward") =>
                /\ lastSend'[c].out = conns[c].out
                /\ lastSend'[c].out.ev < conns[c].cursor
                /\ (lastSend[c].called /\ lastSend[c].out.ev # 0) =>
                      lastSend'[c].out.ev > lastSend[c].out.ev ]_vars

\* an event is forwarded after the receiver has overflowed and skipped events
C33_Witness ==
    /\ Len(events) > ChannelCapacity
    /\ lastSend[1].called
    /\ lastSend[1].out.ev > conns[1].joined + conns[1].ntaken
    /\ lastSend[1].written = "original"

\* ---------------------------------------------------------------------------
\* the tasks that take the two locks, step by step
\* ---------------------------------------------------------------------------

UpdateIds == {1, Len(InMemoryPsetRepository_default_psets) + 1}

UpdateNames == {"Renamed", "Standard"}

InitLocks ==
    /\ IdleBatch
    /\ IdleTracker
    /\ IdleSched
    /\ IdleDevice
    /\ IdleConns
    /\ repository \in {InMemoryPsetRepository_new, SqlitePsetRepository_new}
    /\ call = [op |-> "new"]
    /\ http = IdleHttp
    /\ locks = IdleLocks

\* PUT /psets/{id}, POST /simulate/tightening, one scheduler task and one
\* connection that selects PSETs with MID 0018, each on a worker thread
NextLocks ==
    \/ \E id \in UpdateIds : UpdateLock(id)
    \/ \E name \in UpdateNames : UpdateApply(name)
    \/ UpdateCurrent
    \/ UpdateSetPset
    \/ UpdatePublish
    \/ \E t \in {"simulate", "sched"} : ParamsRead(t)
    \/ \E t \in {"simulate", "sched"} : ParamsGet(t)
    \/ \E t \in {"simulate", "sched"} : Wake(t)
    \/ \E t \in {"simulate", "sched", "conn"} : WriteLock(t)
    \/ SchedWrite
    \/ \E t \in {"simulate", "sched"}, ok \in BOOLEAN : Record(t, ok)
    \/ \E t \in {"simulate", "sched"} : Publish(t)
    \/ ConnRequest
    \/ \E pset_id \in {1, 2} : ConnHandle(pset_id)
    \/ ConnRespond

SpecLocks == InitLocks /\ [][NextLocks]_vars

\* the positions at which a task is suspended: in a sleep, or in a read or a
\* write on its socket
SuspendedAt(t) ==
    CASE t = "simulate" -> {"sleep"}
      [] t = "sched" -> {"sleep_duration", "sleep_interval"}
      [] t = "conn" -> {"idle", "respond"}
      [] t = "update" -> {}

\* C34: a task that is suspended (sleeping, or awaiting its socket) holds
\* neither the write lock of the DeviceState nor the write lock of the PSET
\* repository.
C34_NoWriteLockWhileSuspended ==
    \A t \in LockTasks :
       locks.pc[t] \in SuspendedAt(t) =>
          /\ locks.state.writer # t
          /\ locks.repo.writer # t

\* the scheduler sleeps after its Tightening block while another task is
\* inside a write section
C34_Witness ==
    /\ locks.pc["sched"] = "sleep_duration"
    /\ state.device_fsm_state = "Tightening"
    /\ locks.pc["conn"] = "respond"
    /\ locks.state.writer = "simulate"

\* the task asks for a lock that it cannot get in this state
Blocked(t) ==
    \/ t = "update" /\ locks.pc[t] = "current" /\ ~RwLock_can_read(locks.state)
    \/ t = "update" /\ locks.pc[t] = "set_pset" /\ ~RwLock_can_write(locks.state)
    \/ /\ locks.pc[t] = "params"
       /\ state.current_pset_id # <<>>
       /\ ~RwLock_can_read(locks.repo)
    \/ /\ \E x \in WriteSections : locks.pc[t] = "w_" \o x
       /\ ~RwLock_can_write(locks.state)

Holds(t) ==
    \/ locks.state.writer = t
    \/ locks.repo.writer = t
    \/ t \in locks.state.readers
    \/ t \in locks.repo.readers

\* C35: the tasks never deadlock on the two locks: whenever a task waits for
\* a lock, some task that holds a lock is able to go on and release it.
C35_NoDeadlock ==
    (\E t \in LockTasks : Blocked(t)) =>
       (\E u \in LockTasks : Holds(u) /\ ~Blocked(u))

\* ---------------------------------------------------------------------------
\* mutations and their events, from several tasks
\* ---------------------------------------------------------------------------

InitPublish ==
    /\ IdleBatch
    /\ IdleTracker
    /\ IdleSched
    /\ IdleDevice
    /\ IdleConns
    /\ IdleCalls

\* POST /psets/{id}/select and PUT /psets/{id} call set_pset, POST
\* /simulate/tightening and the scheduler record tightenings
NextPublish ==
    \/ \E id \in {1, 2} : SelectCheck(id)
    \/ SelectSet
    \/ SelectPublish
    \/ UpdateLock(1)
    \/ UpdateApply("Renamed")
    \/ UpdateCurrent
    \/ UpdateSetPset
    \/ UpdatePublish
    \/ \E t \in {"simulate", "sched"} : ParamsRead(t)
    \/ \E t \in {"simulate", "sched"} : ParamsGet(t)
    \/ \E t \in {"simulate", "sched"} : Wake(t)
    \/ \E t \in {"simulate", "sched"} : WriteLock(t)
    \/ SchedWrite
    \/ \E t \in {"simulate", "sched"} : Record(t, TRUE)
    \/ \E t \in {"simulate", "sched"} : Publish(t)

SpecPublish == InitPublish /\ [][NextPublish]_vars

EventsOfType(type) == SelectSeq(events, LAMBDA e : e.type = type)

\* C36: events are published in the order of the mutations they report: once
\* no set_pset call is between its write and its broadcast, the last
\* PsetChanged published names current_pset_id, and the TighteningCompleted
\* events are published in increasing tightening_id order.
C36_PublishedInMutationOrder ==
    LET psets == EventsOfType("PsetChanged")
        done == EventsOfType("TighteningCompleted")
    IN /\ (/\ http.select.pc # "publish"
           /\ locks.pc["update"] # "publish"
           /\ psets # <<>>) =>
             state.current_pset_id = <<psets[Len(psets)].pset_id>>
       /\ \A i, j \in 1..Len(done) :
             i < j => done[i].tightening_id < done[j].tightening_id

\* ---------------------------------------------------------------------------
\* the multi-spindle path of the scheduler next to POST /simulate/tightening
\* ---------------------------------------------------------------------------

InitMsSim ==
    /\ IdleBatch
    /\ IdleTracker
    /\ IdleSched
    /\ IdleDevice
    /\ IdleConns
    /\ IdleCalls

\* multi-spindle mode is switched on, one scheduler task runs and tightenings
\* are injected over POST /simulate/tightening
NextMsSim ==
    \/ ConfigureMultiSpindle(TRUE, 2, 1)
    \/ StartLoad(1)
    \/ StartSpawn(1)
    \/ LoopWhile(1)
    \/ LoopTool(1)
    \/ LoopWork(1)
    \/ LoopStart(1)
    \/ LoopEvaluate(1)
    \/ LoopMode(1)
    \/ LoopMsIds(1)
    \/ LoopMsRunning(1)
    \/ LoopMsResult(1)
    \/ LoopMsCompleted(1)
    \/ LoopAdd(1)
    \/ LoopSsPublish(1)
    \/ LoopProgress(1)
    \/ LoopBatch(1)
    \/ LoopIdle(1)
    \/ LoopSleep(1)
    \/ \E ok \in BOOLEAN : SimAdd(ok)
    \/ SimPublish
    \/ SimBatch
    \/ \E size \in 0..MaxBatch : SetBatchSize(size)

SpecMsSim == InitMsSim /\ [][NextMsSim]_vars

\* C37: on the multi-spindle path the result_id of the published
\* MultiSpindleResult is the sequence number that the add_tightening of that
\* cycle assigns, and no two published MultiSpindleResults share a result_id.
C37_ResultIdIsSequence ==
    [][ /\ \A l \in Loops :
             (loops[l].pc = "ms_add" /\ loops'[l].pc = "progress") =>
                /\ loops'[l].result_id = state'.tightening_tracker.tightening_sequence
                /\ loops'[l].result_id = loops[l].result_id
        /\ \A i, j \in 1..Len(events') :
             (/\ i < j
              /\ events'[i].type = "MultiSpindleResultCompleted"
              /\ events'[j].type = "MultiSpindleResultCompleted") =>
                events'[i].result_id # events'[j].result_id ]_vars

\* C38: BatchCompleted is published at most once per batch: with no batch
\* configuration or reset after the one that opened the batch, the published
\* events hold at most one BatchCompleted, however many tightenings are
\* recorded after the batch has completed.
C38_BatchCompletedOnce == Len(EventsOfType("BatchCompleted")) <= 1

\* the changes of the snapshot that the device FSM allows
FsmChanges ==
    {<<"Idle", "Tightening">>, <<"Tightening", "Evaluating">>,
     <<"Evaluating", "Idle">>, <<"Tightening", "Error">>, <<"Error", "Idle">>}

\* C39: every change of device_fsm_state is a change of the device FSM
\* (Idle -> Tightening -> Evaluating -> Idle, Tightening -> Error -> Idle),
\* and no task writes Tightening over a snapshot that is Tightening or
\* Evaluating.
C39_FsmChanges ==
    [][ /\ state'.device_fsm_state # state.device_fsm_state =>
             <<state.device_fsm_state, state'.device_fsm_state>> \in FsmChanges
        /\ \A l \in Loops :
             (loops[l].pc = "start" /\ loops'[l].pc = "run") =>
                state.device_fsm_state \notin {"Tightening", "Evaluating"} ]_vars

\* ---------------------------------------------------------------- /ws/events
\* handle_websocket: the task subscribes to the broadcaster; the initial state
\* is sent and the result of that send is dropped
WsConnect ==
    /\ http.ws.pc = "none"
    /\ http' = [http EXCEPT !.ws = [@ EXCEPT !.pc = "recv", !.peer = "open",
                                              !.cursor = Len(events) + 1]]
    /\ UNCHANGED <<locks, batchVars, trackerVars, state, schedVars, events, connVars,
                   repository, call>>

\* send_task: while let Ok(event) = event_rx.recv().await; every Err, also
\* RecvError::Lagged, ends the loop and with it the task
WsRecv ==
    /\ http.ws.pc = "recv"
    /\ http.ws.cursor <= Len(events)
    /\ LET oldest == Receiver_oldest(events)
       IN http' = [http EXCEPT !.ws =
             IF http.ws.cursor < oldest
             THEN [@ EXCEPT !.pc = "done", !.cursor = oldest, !.lagged = TRUE]
             ELSE [@ EXCEPT !.pc = "send", !.out = http.ws.cursor,
                            !.cursor = @ + 1]]
    /\ UNCHANGED <<locks, batchVars, trackerVars, state, schedVars, events, connVars,
                   repository, call>>

\* sender.send(Message::Text(json)).await: an error ends the task
WsSend ==
    /\ http.ws.pc = "send"
    /\ \E io_ok \in (IF http.ws.peer = "open" THEN {TRUE} ELSE BOOLEAN) :
          http' = [http EXCEPT !.ws =
             IF io_ok THEN [@ EXCEPT !.pc = "recv", !.sent = http.ws.out, !.out = 0]
             ELSE [@ EXCEPT !.pc = "done", !.out = 0]]
    /\ UNCHANGED <<locks, batchVars, trackerVars, state, schedVars, events, connVars,
                   repository, call>>

\* the client closes the socket
WsClose ==
    /\ http.ws.peer = "open"
    /\ http' = [http EXCEPT !.ws.peer = "closed"]
    /\ UNCHANGED <<locks, batchVars, trackerVars, state, schedVars, events, connVars,
                   repository, call>>

\* recv_task has seen the close: select! aborts send_task
WsAbort ==
    /\ http.ws.peer = "closed"
    /\ http.ws.pc \in {"recv", "send"}
    /\ http' = [http EXCEPT !.ws = [@ EXCEPT !.pc = "done", !.out = 0]]
    /\ UNCHANGED <<locks, batchVars, trackerVars, state, schedVars, events, connVars,
                   repository, call>>

InitWs ==
    /\ IdleBatch
    /\ IdleTracker
    /\ IdleSched
    /\ IdleDevice
    /\ IdleConns
    /\ IdleCalls

\* one mirror on /ws/events while events are published faster than it reads
NextWs ==
    \/ WsConnect
    \/ WsRecv
    \/ WsSend
    \/ WsClose
    \/ WsAbort
    \/ BroadcastBurst(LagEvent)

SpecWs == InitWs /\ [][NextWs]_vars

\* C40: a mirror on /ws/events whose receiver has overflowed stays connected
\* while its peer keeps the socket open: the forwarding task has ended only
\* when the peer has closed the socket.
C40_MirrorStaysConnected ==
    /\ http.ws.pc = "done" => http.ws.peer = "closed"
    /\ (http.ws.lagged /\ http.ws.peer = "open") => http.ws.pc \in {"recv", "send"}

====
